---- MODULE Spec2Model ----
(***************************************************************************)
(* gophermart-bonus: the order-reconciliation pipeline (poller, work queue, *)
(* worker pool, accrual client), the order store's status transitions and  *)
(* the balance ledger shared by the credit path and the withdrawal path.   *)
(*                                                                         *)
(* The database is PostgreSQL at READ COMMITTED: a transaction's writes    *)
(* are private until COMMIT, an UPDATE or SELECT ... FOR UPDATE of a row   *)
(* waits for the transaction that holds the row's lock.  The tables below  *)
(* hold the committed rows; what an open transaction has written is        *)
(* determined by the position (pc) of the process that runs it.            *)
(***************************************************************************)
EXTENDS Integers, Sequences, FiniteSets, TLC

----------------------------------------------------------------------------
\* Bounds of the model.
NumUsers == 2
NumOrders == 2
MaxAccrual == 2
MaxFaults == 1
MaxRestarts == 1
\* config.Settings.WorkersNumber and DefaultChannelsBufferSize, scaled down.
WorkersNumber == 2
DefaultChannelsBufferSize == 1

Users == 1..NumUsers
Orders == 1..NumOrders
Workers == 1..WorkersNumber
Accruals == 1..MaxAccrual
\* Concurrent withdrawal requests, the numbers they may name and their amounts:
\* the handler passes on any amount of the request body, negative ones included.
NumRequests == 2
MaxAmount == 2
Requests == 1..NumRequests
Numbers == Orders
Amounts == (-1)..MaxAmount

----------------------------------------------------------------------------
\* repositories: order statuses, external statuses, errors.
OrderStatusNew == "NEW"
OrderStatusProcessing == "PROCESSING"
OrderStatusProcessed == "PROCESSED"
OrderStatusInvalid == "INVALID"
AllOrderStatuses ==
    {OrderStatusNew, OrderStatusProcessing, OrderStatusProcessed, OrderStatusInvalid}
\* No row of "order" with this number.
Absent == "ABSENT"

ExternalOrderStatusRegistered == "REGISTERED"
ExternalOrderStatusProcessing == "PROCESSING"
ExternalOrderStatusProcessed == "PROCESSED"
ExternalOrderStatusInvalid == "INVALID"
\* A status string of the authority that is none of the four.
ExternalOrderStatusOther == "UNKNOWN"

\* HTTP status codes.
StatusOK == 200
StatusNoContent == 204
StatusTooManyRequests == 429
StatusInternalServerError == 500
\* A status code GetOrder's switch has no case for.
StatusOther == 404

ErrTooManyRequests == "ErrTooManyRequests"
ErrOrderNotRegistered == "ErrOrderNotRegistered"
ErrExternalAccrualServiceNotAvailable == "ErrExternalAccrualServiceNotAvailable"
ErrUnexpectedBehaviour == "ErrUnexpectedBehaviour"
\* The error of the HTTP client, or of parsing Retry-After, which GetOrder returns
\* as it is.
ErrTransport == "transportErr"
ErrInvalidStatus == "ErrInvalidStatus"
ErrWrongMethodUsed == "ErrWrongMethodUsed"
Nil == "nil"
\* Errors of the database driver: a failed statement, a failed Begin/Rollback/
\* Commit, and a failed compensating update.
ErrStmt == "err"
ErrTx == "txErr"
ErrInner == "innerErr"
\* strconv.Atoi of a text that is no number.
ErrSyntax == "strconv.ErrSyntax"

\* What AccrualRepository.GetOrder can return: one of its errors, or a decoded
\* ExternalOrder with one of the statuses.
GetOrderErrors ==
    {ErrOrderNotRegistered, ErrTooManyRequests,
     ErrExternalAccrualServiceNotAvailable, ErrUnexpectedBehaviour, ErrTransport}
GetOrderStatuses ==
    {ExternalOrderStatusRegistered, ExternalOrderStatusProcessing,
     ExternalOrderStatusProcessed, ExternalOrderStatusInvalid,
     ExternalOrderStatusOther}
GetOrderOutcomes == GetOrderErrors \cup GetOrderStatuses

----------------------------------------------------------------------------
VARIABLES
    ostatus,        \* "order".status by order number (Absent: no row)
    ouser,          \* "order".user_id by order number (0: no row)
    ocreated,       \* the order numbers by created_at, oldest first
    accrual,        \* table "accrual": rows [order, user, amount]
    balance,        \* "user-balance".balance by user
    withdrawn,      \* "user-balance".withdrawals_sum by user
    withdrawals,    \* table withdrawal: rows [user, number, amount]
    rowLock,        \* holder of the row lock of a user's "user-balance" row
    ordersChannel,  \* WorkerLoop's buffered channel of orders
    ppc,            \* WorkerLoop: position of the dispatch loop
    plist,          \* WorkerLoop: the fetched orders not yet dispatched
    wpc,            \* Worker: position
    word,           \* Worker: the order received (0: none)
    wout,           \* Worker: what GetOrder returned for it
    wacc,           \* Worker: orderState.Accrual
    werr,           \* Worker: the error UpdateOrderStatus returns
    rpc,            \* withdrawal request: position in WithdrawalRepository.Create
    ruser,          \* withdrawal request: userID
    rnum,           \* withdrawal request: number
    ramt,           \* withdrawal request: amount
    rres,           \* withdrawal request: the error Create returned ("nil": the id)
    faults,         \* store failures injected so far
    crashed,        \* the process has exited (logger.Log.Fatal)
    now,            \* time.Now(), in seconds
    retryAfter,     \* AccrualRepository.retryAfter of the instance the service holds
    apc,            \* GetOrder call of a worker: position
    acopy,          \* GetOrder call: retryAfter of the receiver a, a copy
    awake,          \* GetOrder call: when its time.Sleep ends
    cooldownUntil,  \* the latest deadline a 429 has announced (observation + Retry-After)
    restarts,       \* how many times the process has been killed and started again
    submitted,      \* the latest order submission: number, user, error, HTTP status
    aresp,          \* GetOrder call: the response received and what the call returned
    cancelled,      \* ctx.Done() of the context given to WorkerLoop is closed
    decided,        \* the authority's final answer for an order ("nil": none yet)
    called,         \* the latest direct call of an Order Store update, with its error
    users,          \* table "user": the committed rows [id, login], in commit order
    balanceRows,    \* table "user-balance": the user_id of each committed row
    reg,            \* registration call: position in UserRepository.Create, login,
                    \* the id its INSERT returned (0: no row inserted), its error
    written         \* the status code of the latest response of a handler (0: none)

dbVars == <<ostatus, ouser, ocreated, accrual, balance, withdrawn, withdrawals, rowLock>>
pollerVars == <<ppc, plist>>
workerVars == <<wpc, word, wout, wacc, werr>>
requestVars == <<rpc, ruser, rnum, ramt, rres>>
clientVars == <<now, retryAfter, apc, acopy, awake, cooldownUntil, aresp>>
registerVars == <<users, balanceRows, reg>>
vars ==
    <<dbVars, ordersChannel, pollerVars, workerVars, requestVars, faults, crashed,
      clientVars, restarts, submitted, cancelled, decided, called, registerVars, written>>

\* No response received yet, and no direct call made yet.
NoResponse == [code |-> 0, header |-> Nil, body |-> Nil, status |-> Nil, err |-> Nil]
NoCall == [op |-> Nil, order |-> 0, status |-> Nil, err |-> Nil]

NoTx == <<"none", 0>>
WorkerTx(w) == <<"worker", w>>
RequestTx(r) == <<"request", r>>

\* The process runs: no logger.Log.Fatal has ended it.
Running == ~crashed

\* A store operation may fail while the fault budget lasts.
CanFail == faults < MaxFaults

\* A store operation of the pipeline is called with the context given to
\* WorkerLoop: database/sql returns ctx.Err() once that context is done, and it
\* rolls back the transaction begun with it.
CtxLive == ~cancelled

\* A store operation of the pipeline fails: the store fails, or the context is
\* done.
StoreFails ==
    \/ CanFail /\ faults' = faults + 1
    \/ cancelled /\ UNCHANGED faults

----------------------------------------------------------------------------
\* A repository that takes every status.
AcceptsEveryStatus(status) == Nil

\* OrderRepository.UpdateOrderStatus: the error it returns for a status.
UpdateOrderStatusError(status) ==
    IF status \notin AllOrderStatuses THEN ErrInvalidStatus
    ELSE IF status = OrderStatusProcessed THEN ErrWrongMethodUsed
    ELSE Nil

\* An update statement that changes no row.
UpdateOrderStatusSkipped(orderID, status) == ostatus

\* OrderRepository.UpdateOrderStatus: UPDATE "order" SET status = $1 WHERE id = $2.
UpdateOrderStatus(orderID, status) ==
    IF UpdateOrderStatusError(status) = Nil
    THEN [ostatus EXCEPT ![orderID] = status]
    ELSE ostatus

\* A fetch that returns the newest order first.
ReadByStatusNewestFirst(status) ==
    LET l == SelectSeq(ocreated, LAMBDA o : ostatus[o] = status)
    IN  [i \in 1..Len(l) |-> l[Len(l) + 1 - i]]

\* OrderRepository.ReadByStatus: the orders with the status, ORDER BY created_at.
ReadByStatus(status) ==
    SelectSeq(ocreated, LAMBDA o : ostatus[o] = status)

\* A fetch that takes the orders in flight too.
ReadNewAndProcessing ==
    SelectSeq(ocreated, LAMBDA o : ostatus[o] \in {OrderStatusNew, OrderStatusProcessing})

\* OrderService.GetOrdersForProcessing.
GetOrdersForProcessing == ReadByStatus("NEW")

----------------------------------------------------------------------------
\* OrderRepository.Create, called by the submission handler: a new row in NEW.
Create(number, userID) ==
    /\ Running
    /\ UNCHANGED <<clientVars, restarts, submitted, cancelled, decided, called, registerVars, written>>
    /\ ostatus[number] = Absent
    /\ ostatus' = [ostatus EXCEPT ![number] = OrderStatusNew]
    /\ ouser' = [ouser EXCEPT ![number] = userID]
    /\ ocreated' = Append(ocreated, number)
    /\ UNCHANGED <<accrual, balance, withdrawn, withdrawals, rowLock>>
    /\ UNCHANGED <<ordersChannel, pollerVars, workerVars, faults, requestVars, crashed>>

----------------------------------------------------------------------------
\* RegisterOrderHandler.ServeHTTP and OrderService.Create: the submission of an
\* order number by an authenticated user, with the error of the service and the
\* status code of the response.
ErrOrderAlreadyExists == "ErrOrderAlreadyExists"
ErrOrderAlreadyRegisteredByCurrentUser == "ErrOrderAlreadyRegisteredByCurrentUser"
StatusAccepted == 202
StatusConflict == 409

NoSubmission == [number |-> 0, user |-> 0, err |-> Nil, code |-> 0]

\* An owner check with the two outcomes exchanged.
ExistingOrderErrorSwapped(existingUserID, userID) ==
    IF existingUserID # userID
    THEN ErrOrderAlreadyRegisteredByCurrentUser
    ELSE ErrOrderAlreadyExists

\* OrderService.Create, the number existing: the error for the owner that
\* orderRepository.Read has returned.
ExistingOrderError(existingUserID, userID) ==
    IF existingUserID # userID
    THEN ErrOrderAlreadyExists
    ELSE ErrOrderAlreadyRegisteredByCurrentUser

\* RegisterOrderHandler.ServeHTTP: the status code for the service's error.
ResponseCode(err) ==
    CASE err = Nil -> StatusAccepted
      [] err = ErrOrderAlreadyRegisteredByCurrentUser -> StatusOK
      [] err = ErrOrderAlreadyExists -> StatusConflict
      [] OTHER -> StatusInternalServerError

Responds(number, userID, err) ==
    submitted' = [number |-> number, user |-> userID, err |-> err,
                  code |-> ResponseCode(err)]

\* The submission.  The INSERT creates the row in NEW, or meets the unique index
\* on the number (ErrOrderAlreadyExists) and the service reads the existing row.
\* OrderRepository.Read returns its error when Prepare or Scan fails, but
\* (Order{}, nil) when the query fails: the service then compares with user 0.
RegisterOrder(number, userID) ==
    /\ Running
    /\ \/ /\ ostatus[number] = Absent
          /\ ostatus' = [ostatus EXCEPT ![number] = OrderStatusNew]
          /\ ouser' = [ouser EXCEPT ![number] = userID]
          /\ ocreated' = Append(ocreated, number)
          /\ Responds(number, userID, Nil)
          /\ UNCHANGED faults
       \/ /\ ostatus[number] # Absent
          /\ Responds(number, userID, ExistingOrderError(ouser[number], userID))
          /\ UNCHANGED <<ostatus, ouser, ocreated, faults>>
       \/ /\ ostatus[number] # Absent
          /\ CanFail
          /\ faults' = faults + 1
          /\ \/ Responds(number, userID, ErrStmt)
             \/ Responds(number, userID, ExistingOrderError(0, userID))
          /\ UNCHANGED <<ostatus, ouser, ocreated>>
       \/ /\ CanFail
          /\ faults' = faults + 1
          /\ Responds(number, userID, ErrStmt)
          /\ UNCHANGED <<ostatus, ouser, ocreated>>
    /\ UNCHANGED <<accrual, balance, withdrawn, withdrawals, rowLock>>
    /\ UNCHANGED <<ordersChannel, pollerVars, workerVars, requestVars, crashed>>
    /\ UNCHANGED <<clientVars, restarts, cancelled, decided, called, registerVars>>

----------------------------------------------------------------------------
\* RegisterOrderHandler.ServeHTTP: the request body, a text.  The order numbers
\* of the model name texts: order 1 is "18", order 2 is "x", any further order
\* is "26"; "17" and the empty body are texts of no order.
Digits == {"0", "1", "2", "3", "4", "5", "6", "7", "8", "9"}
DigitValue(c) ==
    CASE c = "0" -> 0 [] c = "1" -> 1 [] c = "2" -> 2 [] c = "3" -> 3 [] c = "4" -> 4
      [] c = "5" -> 5 [] c = "6" -> 6 [] c = "7" -> 7 [] c = "8" -> 8 [] c = "9" -> 9

PayloadOf(number) ==
    CASE number = 1 -> <<"1", "8">>
      [] number = 2 -> <<"x">>
      [] OTHER -> <<"2", "6">>

Payloads == {PayloadOf(n) : n \in Orders} \cup {<<"1", "7">>, <<>>}

StatusBadRequest == 400
StatusUnprocessableEntity == 422

\* strconv.Atoi: the value of a text of decimal digits, (0, ErrSyntax) otherwise.
RECURSIVE DecimalValue(_)
DecimalValue(text) ==
    IF text = <<>>
    THEN 0
    ELSE 10 * DecimalValue(SubSeq(text, 1, Len(text) - 1)) + DigitValue(text[Len(text)])

Atoi(text) ==
    IF text # <<>> /\ \A i \in 1..Len(text) : text[i] \in Digits
    THEN [n |-> DecimalValue(text), err |-> Nil]
    ELSE [n |-> 0, err |-> ErrSyntax]

\* luhn.Valid of github.com/theplant/luhn: the last digit plus the checksum of
\* the digits before it, every second one doubled from the right, is 0 mod 10.
RECURSIVE Checksum(_, _)
Checksum(number, i) ==
    IF number = 0
    THEN 0
    ELSE LET cur == number % 10
             doubled == IF 2 * cur > 9 THEN ((2 * cur) % 10) + ((2 * cur) \div 10) ELSE 2 * cur
         IN  ((IF i % 2 = 0 THEN doubled ELSE cur) + Checksum(number \div 10, i + 1)) % 10

Valid(number) == ((number % 10) + Checksum(number \div 10, 0)) % 10 = 0

\* A handler that returns after it has answered 422 to a text that is no number.
ReturnsWhenNotANumber(text) == Atoi(text).err = Nil /\ Valid(Atoi(text).n)

\* The handler goes on to orderService.Create: the Luhn check passes for the
\* value Atoi has returned.  After a failed Atoi, answered with 422, there is no
\* return, and the value is 0.
CallsCreate(text) == Valid(Atoi(text).n)

\* The whole handler.  The first status written is the one of the response: a
\* later WriteHeader does not replace it.
RegisterOrderHandler(text, userID) ==
    \/ /\ text = <<>>
       /\ Running
       /\ written' = StatusBadRequest
       /\ UNCHANGED <<dbVars, ordersChannel, pollerVars, workerVars, requestVars, faults>>
       /\ UNCHANGED <<crashed, clientVars, restarts, submitted, cancelled, decided, called>>
       /\ UNCHANGED registerVars
    \/ /\ text # <<>>
       /\ ~CallsCreate(text)
       /\ Running
       /\ written' = StatusUnprocessableEntity
       /\ UNCHANGED <<dbVars, ordersChannel, pollerVars, workerVars, requestVars, faults>>
       /\ UNCHANGED <<crashed, clientVars, restarts, submitted, cancelled, decided, called>>
       /\ UNCHANGED registerVars
    \/ /\ text # <<>>
       /\ CallsCreate(text)
       /\ \E n \in Orders :
             /\ PayloadOf(n) = text
             /\ RegisterOrder(n, userID)
       /\ written' = IF Atoi(text).err # Nil
                     THEN StatusUnprocessableEntity
                     ELSE submitted'.code

----------------------------------------------------------------------------
\* OrderService.WorkerLoop: the default case of the select, taken when no worker
\* waits to send on errorsChannel and ctx.Done() is not closed; it fetches the
\* NEW orders or returns the error.
PollerFetch ==
    /\ Running
    /\ UNCHANGED <<clientVars, restarts, submitted, cancelled, decided, called, registerVars, written>>
    /\ ppc = "select"
    /\ \A w \in Workers : wpc[w] # "senderr"
    /\ ~cancelled
    /\ \/ /\ plist' = GetOrdersForProcessing
          /\ ppc' = "loop"
          /\ UNCHANGED faults
       \/ /\ CanFail
          /\ faults' = faults + 1
          /\ ppc' = "returned"
          /\ UNCHANGED plist
    /\ UNCHANGED <<dbVars, ordersChannel, workerVars, requestVars, crashed>>

\* A flip whose failed statement has stored PROCESSING all the same.
PollerFlipStoresOnFailure ==
    /\ Running
    /\ UNCHANGED <<clientVars, restarts, submitted, cancelled, decided, called, registerVars, written>>
    /\ ppc = "loop"
    /\ plist # <<>>
    /\ \/ /\ CtxLive
          /\ ppc' = "enqueue"
          /\ UNCHANGED faults
       \/ /\ StoreFails
          /\ ppc' = "returned"
    /\ ostatus' = UpdateOrderStatus(Head(plist), OrderStatusProcessing)
    /\ UNCHANGED <<ouser, ocreated, accrual, balance, withdrawn, withdrawals, rowLock>>
    /\ UNCHANGED <<plist, ordersChannel, workerVars, requestVars, crashed>>

\* WorkerLoop: UpdateOrderStatus(order.ID, PROCESSING) for the next fetched order.
PollerFlip ==
    /\ Running
    /\ UNCHANGED <<clientVars, restarts, submitted, cancelled, decided, called, registerVars, written>>
    /\ ppc = "loop"
    /\ plist # <<>>
    /\ \/ /\ CtxLive
          /\ ostatus' = UpdateOrderStatus(Head(plist), OrderStatusProcessing)
          /\ ppc' = "enqueue"
          /\ UNCHANGED faults
       \/ /\ StoreFails
          /\ ppc' = "returned"
          /\ UNCHANGED ostatus
    /\ UNCHANGED <<ouser, ocreated, accrual, balance, withdrawn, withdrawals, rowLock>>
    /\ UNCHANGED <<plist, ordersChannel, workerVars, requestVars, crashed>>

\* WorkerLoop: ordersChannel <- order, blocking while the buffer is full.
PollerEnqueue ==
    /\ Running
    /\ UNCHANGED <<clientVars, restarts, submitted, cancelled, decided, called, registerVars, written>>
    /\ ppc = "enqueue"
    /\ Len(ordersChannel) < DefaultChannelsBufferSize
    /\ ordersChannel' = Append(ordersChannel, Head(plist))
    /\ plist' = Tail(plist)
    /\ ppc' = "loop"
    /\ UNCHANGED <<dbVars, workerVars, faults, requestVars, crashed>>

\* WorkerLoop: time.Sleep(OrderStatusCheckPeriod) after the last order, then the
\* select again.
PollerSleep ==
    /\ Running
    /\ UNCHANGED <<clientVars, restarts, submitted, cancelled, decided, called, registerVars, written>>
    /\ ppc = "loop"
    /\ plist = <<>>
    /\ ppc' = "select"
    /\ UNCHANGED <<dbVars, ordersChannel, plist, workerVars, faults, requestVars, crashed>>

\* A receive of an error report that makes WorkerLoop return it.
PollerRecvErrReturns(w) ==
    /\ Running
    /\ UNCHANGED <<clientVars, restarts, submitted, cancelled, decided, called, registerVars, written>>
    /\ ppc = "select"
    /\ wpc[w] = "senderr"
    /\ wpc' = [wpc EXCEPT ![w] = "idle"]
    /\ werr' = [werr EXCEPT ![w] = Nil]
    /\ ppc' = "returned"
    /\ UNCHANGED <<dbVars, ordersChannel, plist, word, wout, wacc, faults, requestVars, crashed>>

\* WorkerLoop: case err := <-errorsChannel, the rendezvous with a worker blocked
\* in errorsChannel <- err.
PollerRecvErr(w) ==
    /\ Running
    /\ UNCHANGED <<clientVars, restarts, submitted, cancelled, decided, called, registerVars, written>>
    /\ ppc = "select"
    /\ wpc[w] = "senderr"
    /\ wpc' = [wpc EXCEPT ![w] = "idle"]
    /\ werr' = [werr EXCEPT ![w] = Nil]
    /\ UNCHANGED <<dbVars, ordersChannel, pollerVars, word, wout, wacc, faults, requestVars, crashed>>

----------------------------------------------------------------------------
\* OrderService.Worker: case order := <-ordersChannel.
WorkerDequeue(w) ==
    /\ Running
    /\ UNCHANGED <<clientVars, restarts, submitted, cancelled, decided, called, registerVars, written>>
    /\ wpc[w] = "idle"
    /\ ordersChannel # <<>>
    /\ word' = [word EXCEPT ![w] = Head(ordersChannel)]
    /\ ordersChannel' = Tail(ordersChannel)
    /\ wpc' = [wpc EXCEPT ![w] = "call"]
    /\ UNCHANGED <<dbVars, pollerVars, wout, wacc, werr, faults, requestVars, crashed>>

\* OrderService.UpdateOrderStatus: where the routine goes with what GetOrder
\* returned.  REGISTERED is an empty case of the switch (Go does not fall
\* through), so the routine goes straight to its final return nil.
FirstStep(outcome) ==
    CASE outcome = ExternalOrderStatusRegistered -> "ret"
      [] outcome = ExternalOrderStatusProcessed -> "tx_begin"
      [] OTHER -> "set"

\* A routine that answers every outcome with NEW.
SetTargetAlwaysNew(outcome) == OrderStatusNew

\* A routine that answers every outcome with INVALID.
SetTargetAlwaysInvalid(outcome) == OrderStatusInvalid

\* OrderService.UpdateOrderStatus: the status of the first simple update.
SetTarget(outcome) ==
    IF outcome \in {ErrOrderNotRegistered, ExternalOrderStatusInvalid}
    THEN OrderStatusInvalid
    ELSE OrderStatusNew

\* A routine with no compensating update.
NeverReverts(outcome) == FALSE

\* OrderService.UpdateOrderStatus: only the INVALID case of the switch follows a
\* failed simple update by the compensating update to NEW.
RevertsOnFailure(outcome) == outcome = ExternalOrderStatusInvalid

\* OrderService.UpdateOrderStatus: the call of accrualRepository.GetOrder and the
\* branch taken on its result.
GetOrderFrom(w, outcomes) ==
    /\ Running
    /\ UNCHANGED <<clientVars, restarts, submitted, cancelled, decided, called, registerVars, written>>
    /\ wpc[w] = "call"
    /\ \E outcome \in outcomes, a \in Accruals :
          /\ outcome # ExternalOrderStatusProcessed => a = 1
          /\ wout' = [wout EXCEPT ![w] = outcome]
          /\ wacc' = [wacc EXCEPT ![w] =
                        IF outcome = ExternalOrderStatusProcessed THEN a ELSE 0]
          /\ wpc' = [wpc EXCEPT ![w] = FirstStep(outcome)]
    /\ UNCHANGED <<dbVars, ordersChannel, pollerVars, word, werr, faults, requestVars, crashed>>

\* The call with any answer of the authority.
WorkerGetOrder(w) == GetOrderFrom(w, GetOrderOutcomes)

\* The call with the authority answering PROCESSED, the answer that leads to the
\* credit transaction.
WorkerGetOrderProcessed(w) == GetOrderFrom(w, {ExternalOrderStatusProcessed})

\* OrderService.UpdateOrderStatus: the simple update of a branch, and what the
\* branch does when it fails.
WorkerSetStatus(w) ==
    /\ Running
    /\ UNCHANGED <<clientVars, restarts, submitted, cancelled, decided, called, registerVars, written>>
    /\ wpc[w] = "set"
    /\ \/ /\ CtxLive
          /\ ostatus' = UpdateOrderStatus(word[w], SetTarget(wout[w]))
          /\ wpc' = [wpc EXCEPT ![w] = "ret"]
          /\ UNCHANGED <<werr, faults>>
       \/ /\ StoreFails
          /\ werr' = [werr EXCEPT ![w] = ErrStmt]
          /\ wpc' = [wpc EXCEPT ![w] =
                        IF RevertsOnFailure(wout[w]) THEN "revert" ELSE "ret"]
          /\ UNCHANGED ostatus
    /\ UNCHANGED <<ouser, ocreated, accrual, balance, withdrawn, withdrawals, rowLock>>
    /\ UNCHANGED <<ordersChannel, pollerVars, word, wout, wacc, requestVars, crashed>>

\* OrderService.UpdateOrderStatus: the compensating UpdateOrderStatus(NEW) after a
\* failed PROCESSED or INVALID transition; it returns the first error, or its own.
\* It runs right after a failed store operation and may fail with it (the same
\* outage), so its failure is not counted against the fault budget.
WorkerRevert(w) ==
    /\ Running
    /\ UNCHANGED <<clientVars, restarts, submitted, cancelled, decided, called, registerVars, written>>
    /\ wpc[w] = "revert"
    /\ \/ /\ CtxLive
          /\ ostatus' = UpdateOrderStatus(word[w], OrderStatusNew)
          /\ UNCHANGED <<werr, faults>>
       \/ /\ werr' = [werr EXCEPT ![w] = ErrInner]
          /\ UNCHANGED <<ostatus, faults>>
    /\ wpc' = [wpc EXCEPT ![w] = "ret"]
    /\ UNCHANGED <<ouser, ocreated, accrual, balance, withdrawn, withdrawals, rowLock>>
    /\ UNCHANGED <<ordersChannel, pollerVars, word, wout, wacc, requestVars, crashed>>

----------------------------------------------------------------------------
\* OrderRepository.UpdateOrderAndPasteAccrual.  The transaction's three writes
\* stay private until Commit; a failure of a statement rolls it back and the
\* service goes on to the compensating update.

\* A statement of the transaction failed: Rollback (which releases the row
\* lock), then return err, or txErr when the Rollback fails too.
TxAbort(w) ==
    /\ StoreFails
    /\ \E e \in {ErrStmt, ErrTx} : werr' = [werr EXCEPT ![w] = e]
    /\ rowLock' = [u \in Users |-> IF rowLock[u] = WorkerTx(w) THEN NoTx ELSE rowLock[u]]
    /\ wpc' = [wpc EXCEPT ![w] = "revert"]

\* pool.BeginTx.
TxBegin(w) ==
    /\ Running
    /\ UNCHANGED <<clientVars, restarts, submitted, cancelled, decided, called, registerVars, written>>
    /\ wpc[w] = "tx_begin"
    /\ \/ /\ CtxLive
          /\ wpc' = [wpc EXCEPT ![w] = "tx_status"]
          /\ UNCHANGED <<werr, faults>>
       \/ /\ StoreFails
          /\ werr' = [werr EXCEPT ![w] = ErrTx]
          /\ wpc' = [wpc EXCEPT ![w] = "revert"]
    /\ UNCHANGED <<dbVars, ordersChannel, pollerVars, word, wout, wacc, requestVars, crashed>>

\* UPDATE "order" SET status = $1 WHERE id = $2, inside the transaction.
TxUpdateStatus(w) ==
    /\ Running
    /\ UNCHANGED <<clientVars, restarts, submitted, cancelled, decided, called, registerVars, written>>
    /\ wpc[w] = "tx_status"
    /\ \/ /\ CtxLive
          /\ wpc' = [wpc EXCEPT ![w] = "tx_accrual"]
          /\ UNCHANGED <<werr, faults, rowLock>>
       \/ TxAbort(w)
    /\ UNCHANGED <<ostatus, ouser, ocreated, accrual, balance, withdrawn, withdrawals>>
    /\ UNCHANGED <<ordersChannel, pollerVars, word, wout, wacc, requestVars, crashed>>

\* INSERT INTO "accrual" (amount, user_id, order_id).
TxInsertAccrual(w) ==
    /\ Running
    /\ UNCHANGED <<clientVars, restarts, submitted, cancelled, decided, called, registerVars, written>>
    /\ wpc[w] = "tx_accrual"
    /\ \/ /\ CtxLive
          /\ wpc' = [wpc EXCEPT ![w] = "tx_balance"]
          /\ UNCHANGED <<werr, faults, rowLock>>
       \/ TxAbort(w)
    /\ UNCHANGED <<ostatus, ouser, ocreated, accrual, balance, withdrawn, withdrawals>>
    /\ UNCHANGED <<ordersChannel, pollerVars, word, wout, wacc, requestVars, crashed>>

\* UPDATE "user-balance" SET balance = balance + $1 WHERE user_id = $2: waits for
\* the row lock and holds it until the transaction ends.
TxUpdateBalance(w) ==
    /\ Running
    /\ UNCHANGED <<clientVars, restarts, submitted, cancelled, decided, called, registerVars, written>>
    /\ wpc[w] = "tx_balance"
    /\ \/ /\ CtxLive
          /\ rowLock[ouser[word[w]]] = NoTx
          /\ rowLock' = [rowLock EXCEPT ![ouser[word[w]]] = WorkerTx(w)]
          /\ wpc' = [wpc EXCEPT ![w] = "tx_commit"]
          /\ UNCHANGED <<werr, faults>>
       \/ TxAbort(w)
    /\ UNCHANGED <<ostatus, ouser, ocreated, accrual, balance, withdrawn, withdrawals>>
    /\ UNCHANGED <<ordersChannel, pollerVars, word, wout, wacc, requestVars, crashed>>

\* The three writes of the transaction, as Commit makes them visible.
CommitOrderStatus(w) == [ostatus EXCEPT ![word[w]] = OrderStatusProcessed]
\* A commit that records no credit row.
CommitAccrualDropped(w) == accrual

CommitAccrual(w) ==
    Append(accrual, [order |-> word[w], user |-> ouser[word[w]], amount |-> wacc[w]])
\* A balance update that writes the amount in place of adding it.
CommitBalanceOverwrite(w) == [balance EXCEPT ![ouser[word[w]]] = wacc[w]]

CommitBalance(w) == [balance EXCEPT ![ouser[word[w]]] = @ + wacc[w]]

\* What a failed transaction leaves of the three tables: nothing of its writes.
RollbackOrderStatus(w) == ostatus
RollbackAccrual(w) == accrual
RollbackBalance(w) == balance

\* transaction.Commit.  It returns nil with the writes applied, or an error with
\* the transaction rolled back, or an error although the server has applied the
\* COMMIT (the connection is lost before the reply arrives).
TxCommit(w) ==
    /\ Running
    /\ UNCHANGED <<clientVars, restarts, submitted, cancelled, decided, called, registerVars, written>>
    /\ wpc[w] = "tx_commit"
    /\ \/ /\ CtxLive
          /\ ostatus' = CommitOrderStatus(w)
          /\ accrual' = CommitAccrual(w)
          /\ balance' = CommitBalance(w)
          /\ wpc' = [wpc EXCEPT ![w] = "ret"]
          /\ UNCHANGED <<werr, faults>>
       \/ /\ StoreFails
          /\ ostatus' = RollbackOrderStatus(w)
          /\ accrual' = RollbackAccrual(w)
          /\ balance' = RollbackBalance(w)
          /\ werr' = [werr EXCEPT ![w] = ErrTx]
          /\ wpc' = [wpc EXCEPT ![w] = "revert"]
       \/ /\ CanFail
          /\ faults' = faults + 1
          /\ ostatus' = CommitOrderStatus(w)
          /\ accrual' = CommitAccrual(w)
          /\ balance' = CommitBalance(w)
          /\ werr' = [werr EXCEPT ![w] = ErrTx]
          /\ wpc' = [wpc EXCEPT ![w] = "revert"]
    /\ rowLock' = [rowLock EXCEPT ![ouser[word[w]]] = NoTx]
    /\ UNCHANGED <<ouser, ocreated, withdrawn, withdrawals>>
    /\ UNCHANGED <<ordersChannel, pollerVars, word, wout, wacc, requestVars, crashed>>

\* OrderService.Worker: err := o.UpdateOrderStatus(ctx, order) has returned; with
\* an error the worker goes to errorsChannel <- err, else back to the select.
WorkerReturn(w) ==
    /\ Running
    /\ UNCHANGED <<clientVars, restarts, submitted, cancelled, decided, called, registerVars, written>>
    /\ wpc[w] = "ret"
    /\ wpc' = [wpc EXCEPT ![w] = IF werr[w] # Nil THEN "senderr" ELSE "idle"]
    /\ word' = [word EXCEPT ![w] = 0]
    /\ wout' = [wout EXCEPT ![w] = Nil]
    /\ wacc' = [wacc EXCEPT ![w] = 0]
    /\ UNCHANGED werr
    /\ UNCHANGED <<dbVars, ordersChannel, pollerVars, faults, requestVars, crashed>>

----------------------------------------------------------------------------
\* The two update operations of OrderRepository called directly, with any order
\* id and any status string, one call at a time.

\* OrderRepository.UpdateOrderAndPasteAccrual: the error it returns for a status
\* before it opens its transaction.
UpdateOrderAndPasteAccrualError(status) ==
    IF status # OrderStatusProcessed THEN ErrWrongMethodUsed ELSE Nil

\* The status strings of a call: those of AllOrderStatuses and one that is none
\* of them.
CallStatuses == AllOrderStatuses \cup {ExternalOrderStatusRegistered}

Called(op, orderID, status, err) ==
    called' = [op |-> op, order |-> orderID, status |-> status, err |-> err]

\* OrderRepository.UpdateOrderStatus(ctx, orderID, status): the two checks, then
\* the UPDATE, which changes the row with the id if there is one.
UpdateOrderStatusCall(orderID, status) ==
    /\ Running
    /\ UNCHANGED <<clientVars, restarts, submitted, cancelled, decided, registerVars, written>>
    /\ \/ /\ ostatus' = IF ostatus[orderID] = Absent
                         THEN ostatus
                         ELSE UpdateOrderStatus(orderID, status)
          /\ Called("UpdateOrderStatus", orderID, status, UpdateOrderStatusError(status))
          /\ UNCHANGED faults
       \/ /\ UpdateOrderStatusError(status) = Nil
          /\ CanFail
          /\ faults' = faults + 1
          /\ Called("UpdateOrderStatus", orderID, status, ErrStmt)
          /\ UNCHANGED ostatus
    /\ UNCHANGED <<ouser, ocreated, accrual, balance, withdrawn, withdrawals, rowLock>>
    /\ UNCHANGED <<ordersChannel, pollerVars, workerVars, requestVars, crashed>>

\* OrderRepository.UpdateOrderAndPasteAccrual(ctx, order, status, amount) for an
\* order of the table: the check of the status, then the transaction, whose
\* three writes become visible together at Commit, or not at all.  The calls
\* stop once "accrual" has NumOrders rows.
UpdateOrderAndPasteAccrual(orderID, status, amount) ==
    /\ Running
    /\ UNCHANGED <<clientVars, restarts, submitted, cancelled, decided, registerVars, written>>
    /\ ostatus[orderID] # Absent
    /\ Len(accrual) < NumOrders
    /\ \/ /\ UpdateOrderAndPasteAccrualError(status) # Nil
          /\ Called("UpdateOrderAndPasteAccrual", orderID, status,
                    UpdateOrderAndPasteAccrualError(status))
          /\ UNCHANGED <<ostatus, accrual, balance, faults>>
       \/ /\ UpdateOrderAndPasteAccrualError(status) = Nil
          /\ ostatus' = [ostatus EXCEPT ![orderID] = status]
          /\ accrual' = Append(accrual, [order |-> orderID, user |-> ouser[orderID],
                                         amount |-> amount])
          /\ balance' = [balance EXCEPT ![ouser[orderID]] = @ + amount]
          /\ Called("UpdateOrderAndPasteAccrual", orderID, status, Nil)
          /\ UNCHANGED faults
       \/ /\ UpdateOrderAndPasteAccrualError(status) = Nil
          /\ CanFail
          /\ faults' = faults + 1
          /\ \E e \in {ErrStmt, ErrTx} :
                Called("UpdateOrderAndPasteAccrual", orderID, status, e)
          /\ UNCHANGED <<ostatus, accrual, balance>>
    /\ UNCHANGED <<ouser, ocreated, withdrawn, withdrawals, rowLock>>
    /\ UNCHANGED <<ordersChannel, pollerVars, workerVars, requestVars, crashed>>

----------------------------------------------------------------------------
\* The cancellation of the context given to WorkerLoop.

\* The owner of the context cancels it: ctx.Done() is closed from now on.
Cancel ==
    /\ Running
    /\ ~cancelled
    /\ cancelled' = TRUE
    /\ UNCHANGED <<dbVars, ordersChannel, pollerVars, workerVars, requestVars, faults, crashed>>
    /\ UNCHANGED <<clientVars, restarts, submitted, decided, called, registerVars, written>>

\* OrderService.WorkerLoop: case <-ctx.Done(): return nil.  The select takes it
\* or, when a worker waits to send, either of the two cases that are ready.
PollerDone ==
    /\ Running
    /\ UNCHANGED <<clientVars, restarts, submitted, cancelled, decided, called, registerVars, written>>
    /\ ppc = "select"
    /\ cancelled
    /\ ppc' = "returned"
    /\ UNCHANGED <<dbVars, ordersChannel, plist, workerVars, faults, requestVars, crashed>>

\* OrderService.Worker: case <-ctx.Done(): return nil.  With an order in
\* ordersChannel both cases of the select are ready and either is taken, so
\* WorkerDequeue stays possible.
WorkerDone(w) ==
    /\ Running
    /\ UNCHANGED <<clientVars, restarts, submitted, cancelled, decided, called, registerVars, written>>
    /\ wpc[w] = "idle"
    /\ cancelled
    /\ wpc' = [wpc EXCEPT ![w] = "exited"]
    /\ UNCHANGED <<dbVars, ordersChannel, pollerVars, word, wout, wacc, werr, faults, requestVars, crashed>>

----------------------------------------------------------------------------
\* WithdrawalRepository.Create(ctx, number, amount, userID), one call per request.
ErrNotEnoughPoints == "ErrNotEnoughPoints"
ErrWithdrawalOrderAlreadyExists == "ErrWithdrawalOrderAlreadyExists"

\* The sum of the amounts of rows.
RECURSIVE SumAmounts(_)
SumAmounts(rows) ==
    IF rows = <<>> THEN 0 ELSE Head(rows).amount + SumAmounts(Tail(rows))

\* The request's transaction is open with the UPDATE of the balance row done.
HasDebited(r) == rpc[r] \in {"insert", "commit", "leaked"}

\* The call ends with an error and its transaction rolled back; a Rollback that
\* fails ends the process instead (logger.Log.Fatal).
WithdrawFail(r, e) ==
    /\ rowLock' = [u \in Users |-> IF rowLock[u] = RequestTx(r) THEN NoTx ELSE rowLock[u]]
    /\ rpc' = [rpc EXCEPT ![r] = "done"]
    /\ rres' = [rres EXCEPT ![r] = e]

\* A handler that returns after it has answered 422 to amount 0.
ReturnsWhenAmountIsZero(amount) == amount # 0

\* CreateWithdrawalHandler.ServeHTTP goes on to withdrawalService.Create with
\* the amount of the request: amount 0 is answered 422, with no return.
CallsWithdrawalCreate(amount) == TRUE

\* pool.BeginTx, for any number, amount and user.  The requests are alike, so
\* they are taken to arrive in the order of their names.
WithdrawBegin(r) ==
    /\ Running
    /\ UNCHANGED <<clientVars, restarts, submitted, cancelled, decided, called, registerVars, written>>
    /\ rpc[r] = "idle"
    /\ \A q \in Requests : q < r => rpc[q] # "idle"
    /\ \E u \in Users, n \in Numbers, a \in Amounts :
          /\ CallsWithdrawalCreate(a)
          /\ ruser' = [ruser EXCEPT ![r] = u]
          /\ rnum' = [rnum EXCEPT ![r] = n]
          /\ ramt' = [ramt EXCEPT ![r] = a]
    /\ \/ /\ rpc' = [rpc EXCEPT ![r] = "select"]
          /\ UNCHANGED <<rres, faults>>
       \/ /\ CanFail
          /\ faults' = faults + 1
          /\ rpc' = [rpc EXCEPT ![r] = "done"]
          /\ rres' = [rres EXCEPT ![r] = ErrTx]
    /\ UNCHANGED <<dbVars, ordersChannel, pollerVars, workerVars, crashed>>

\* A balance check that refuses nothing.
NothingRefused(amount, userBalance) == FALSE

\* A balance check with the comparison reversed.
NotEnoughPointsReversed(amount, userBalance) == amount < userBalance

\* A SELECT ... FOR UPDATE that does not wait for the row lock.
ForUpdateNoWait(r) == TRUE

\* if amount > balance.
NotEnoughPoints(amount, userBalance) == amount > userBalance

\* SELECT ... FOR UPDATE returns once no other transaction holds the row lock.
ForUpdateGranted(r) == rowLock[ruser[r]] = NoTx

\* SELECT balance FROM "user-balance" WHERE user_id = $1 FOR UPDATE, which waits
\* for the row lock, and the check amount > balance on the balance it read.
WithdrawSelect(r) ==
    /\ Running
    /\ UNCHANGED <<clientVars, restarts, submitted, cancelled, decided, called, registerVars, written>>
    /\ rpc[r] = "select"
    /\ \/ /\ ForUpdateGranted(r)
          /\ IF NotEnoughPoints(ramt[r], balance[ruser[r]])
             THEN /\ WithdrawFail(r, ErrNotEnoughPoints)
             ELSE /\ rowLock' = [rowLock EXCEPT ![ruser[r]] = RequestTx(r)]
                  /\ rpc' = [rpc EXCEPT ![r] = "update"]
                  /\ UNCHANGED rres
          /\ UNCHANGED <<faults, crashed>>
       \/ /\ CanFail
          /\ faults' = faults + 1
          /\ \E e \in {ErrStmt, ErrTx} : WithdrawFail(r, e)
          /\ UNCHANGED crashed
       \/ /\ CanFail
          /\ faults' = faults + 1
          /\ crashed' = TRUE
          /\ UNCHANGED <<rowLock, rpc, rres>>
    /\ UNCHANGED <<ostatus, ouser, ocreated, accrual, balance, withdrawn, withdrawals>>
    /\ UNCHANGED <<ordersChannel, pollerVars, workerVars, ruser, rnum, ramt>>

\* UPDATE "user-balance" SET balance = balance - $1, withdrawals_sum =
\* withdrawals_sum + $1 WHERE user_id = $2, private to the transaction.
WithdrawUpdate(r) ==
    /\ Running
    /\ UNCHANGED <<clientVars, restarts, submitted, cancelled, decided, called, registerVars, written>>
    /\ rpc[r] = "update"
    /\ \/ /\ rpc' = [rpc EXCEPT ![r] = "insert"]
          /\ UNCHANGED <<rowLock, rres, faults, crashed>>
       \/ /\ CanFail
          /\ faults' = faults + 1
          /\ WithdrawFail(r, ErrStmt)
          /\ UNCHANGED crashed
       \/ /\ CanFail
          /\ faults' = faults + 1
          /\ crashed' = TRUE
          /\ UNCHANGED <<rowLock, rpc, rres>>
    /\ UNCHANGED <<ostatus, ouser, ocreated, accrual, balance, withdrawn, withdrawals>>
    /\ UNCHANGED <<ordersChannel, pollerVars, workerVars, ruser, rnum, ramt>>

\* A withdrawal table with no unique index on the number.
NoUniqueIndex(n) == FALSE

\* The schema: the unique index of table withdrawal holds the numbers of the
\* withdrawal rows, and no number of table "order".
WithdrawalNumberIndex == {withdrawals[i].number : i \in 1..Len(withdrawals)}

\* One index for the numbers of both tables.
NumberTakenInEitherTable(n) == n \in WithdrawalNumberIndex \/ ostatus[n] # Absent

\* The unique index on withdrawal_order_number: a committed row has the number.
NumberTaken(n) == n \in WithdrawalNumberIndex

\* Another open transaction has inserted the number: the INSERT waits for it.
NumberPending(r, n) ==
    \E q \in Requests \ {r} : rpc[q] = "commit" /\ rnum[q] = n

\* INSERT INTO withdrawal (amount, user_id, withdrawal_order_number) RETURNING id.
\* A failed Prepare returns without Rollback.  A failed INSERT is reported by
\* row.Err() (Rollback, then Scan returns the same error) or only by Scan; a
\* unique violation then returns ErrWithdrawalOrderAlreadyExists, in the second
\* case without Rollback.  The transaction left open keeps the row lock.
WithdrawInsert(r) ==
    /\ Running
    /\ UNCHANGED <<clientVars, restarts, submitted, cancelled, decided, called, registerVars, written>>
    /\ rpc[r] = "insert"
    /\ \/ /\ ~NumberTaken(rnum[r])
          /\ ~NumberPending(r, rnum[r])
          /\ rpc' = [rpc EXCEPT ![r] = "commit"]
          /\ UNCHANGED <<rowLock, rres, faults>>
       \/ /\ NumberTaken(rnum[r])
          /\ \/ WithdrawFail(r, ErrWithdrawalOrderAlreadyExists)
             \/ /\ rpc' = [rpc EXCEPT ![r] = "leaked"]
                /\ rres' = [rres EXCEPT ![r] = ErrWithdrawalOrderAlreadyExists]
                /\ UNCHANGED rowLock
          /\ UNCHANGED faults
       \/ /\ CanFail
          /\ faults' = faults + 1
          /\ \/ /\ rpc' = [rpc EXCEPT ![r] = "leaked"]
                /\ rres' = [rres EXCEPT ![r] = ErrStmt]
                /\ UNCHANGED rowLock
             \/ \E e \in {ErrStmt, ErrTx} : WithdrawFail(r, e)
    /\ UNCHANGED <<ostatus, ouser, ocreated, accrual, balance, withdrawn, withdrawals>>
    /\ UNCHANGED <<ordersChannel, pollerVars, workerVars, ruser, rnum, ramt, crashed>>

\* The writes of the withdrawal transaction, as Commit makes them visible.
CommitDebit(r) == [balance EXCEPT ![ruser[r]] = @ - ramt[r]]
CommitWithdrawn(r) == [withdrawn EXCEPT ![ruser[r]] = @ + ramt[r]]
CommitWithdrawal(r) ==
    Append(withdrawals, [user |-> ruser[r], number |-> rnum[r], amount |-> ramt[r]])

\* transaction.Commit: nil, or an error (then logger.Log.Fatal ends the process)
\* with the transaction rolled back or, the reply lost, applied.
WithdrawCommit(r) ==
    /\ Running
    /\ UNCHANGED <<clientVars, restarts, submitted, cancelled, decided, called, registerVars, written>>
    /\ rpc[r] = "commit"
    /\ \/ /\ balance' = CommitDebit(r)
          /\ withdrawn' = CommitWithdrawn(r)
          /\ withdrawals' = CommitWithdrawal(r)
          /\ rres' = [rres EXCEPT ![r] = Nil]
          /\ UNCHANGED <<faults, crashed>>
       \/ /\ CanFail
          /\ faults' = faults + 1
          /\ crashed' = TRUE
          /\ rres' = [rres EXCEPT ![r] = ErrTx]
          /\ \/ UNCHANGED <<balance, withdrawn, withdrawals>>
             \/ /\ balance' = CommitDebit(r)
                /\ withdrawn' = CommitWithdrawn(r)
                /\ withdrawals' = CommitWithdrawal(r)
    /\ rpc' = [rpc EXCEPT ![r] = "done"]
    /\ rowLock' = [rowLock EXCEPT ![ruser[r]] = NoTx]
    /\ UNCHANGED <<ostatus, ouser, ocreated, accrual>>
    /\ UNCHANGED <<ordersChannel, pollerVars, workerVars, ruser, rnum, ramt>>

\* database/sql rolls back a transaction begun with BeginTx(ctx) once ctx is
\* done: the request's context is cancelled when its handler has returned.
WithdrawAwaitDone(r) ==
    /\ Running
    /\ UNCHANGED <<clientVars, restarts, submitted, cancelled, decided, called, registerVars, written>>
    /\ rpc[r] = "leaked"
    /\ rpc' = [rpc EXCEPT ![r] = "done"]
    /\ rowLock' = [rowLock EXCEPT ![ruser[r]] = NoTx]
    /\ UNCHANGED <<ostatus, ouser, ocreated, accrual, balance, withdrawn, withdrawals>>
    /\ UNCHANGED <<ordersChannel, pollerVars, workerVars, ruser, rnum, ramt, rres>>
    /\ UNCHANGED <<faults, crashed>>

Request(r) ==
    \/ WithdrawBegin(r)
    \/ WithdrawSelect(r)
    \/ WithdrawUpdate(r)
    \/ WithdrawInsert(r)
    \/ WithdrawCommit(r)
    \/ WithdrawAwaitDone(r)

----------------------------------------------------------------------------
\* UserRepository.Create: one transaction that inserts the "user" row and its
\* "user-balance" row.  The rows a transaction has inserted are private to it
\* until Commit.  The ids of the sequence are names: a call takes a free one.
NumLogins == 2
NumRegistrations == 3
Logins == 1..NumLogins
Registrations == 1..NumRegistrations
ErrLoginAlreadyTaken == "ErrLoginAlreadyTaken"
NoRegistration == [pc |-> "idle", login |-> 0, id |-> 0, err |-> Nil]

\* The schema: columns balance and withdrawals_sum of "user-balance" default to 0.
UserBalanceDefault == 0

\* The users of the other operations are registered before they act.
AllRegistered ==
    /\ users = [u \in Users |-> [id |-> u, login |-> u]]
    /\ balanceRows = [u \in Users |-> u]

\* The unique index on login: a committed row has the login.
LoginTaken(login) == \E i \in 1..Len(users) : users[i].login = login

\* Another open transaction has inserted the login: the INSERT waits for it.
LoginPending(g, login) ==
    \E q \in Registrations \ {g} :
       /\ reg[q].pc \in {"balance", "commit", "leaked"}
       /\ reg[q].id # 0
       /\ reg[q].login = login

\* The ids no committed row and no open transaction has.
FreeUserIDs ==
    {u \in Users :
        /\ \A i \in 1..Len(users) : users[i].id # u
        /\ \A q \in Registrations : reg[q].id # u}

\* pool.BeginTx, for any login.  The calls are alike, so they are taken to
\* arrive in the order of their names.
UserCreateBegin(g) ==
    /\ Running
    /\ reg[g].pc = "idle"
    /\ \A q \in Registrations : q < g => reg[q].pc # "idle"
    /\ \E login \in Logins :
          \/ /\ reg' = [reg EXCEPT ![g] = [pc |-> "insert", login |-> login, id |-> 0, err |-> Nil]]
             /\ UNCHANGED faults
          \/ /\ CanFail
             /\ faults' = faults + 1
             /\ reg' = [reg EXCEPT ![g] = [pc |-> "done", login |-> login, id |-> 0, err |-> ErrTx]]
    /\ UNCHANGED <<dbVars, users, balanceRows, ordersChannel, pollerVars, workerVars>>
    /\ UNCHANGED <<requestVars, crashed, clientVars, restarts, submitted, cancelled>>
    /\ UNCHANGED <<decided, called, written>>

\* INSERT INTO "user" (login, password) ... RETURNING id.  A failed Prepare
\* returns without Rollback, and so does the unique violation that Scan reports
\* (ErrLoginAlreadyTaken); any other error of Scan rolls back.
UserCreateInsertUser(g) ==
    /\ Running
    /\ reg[g].pc = "insert"
    /\ \/ /\ ~LoginTaken(reg[g].login)
          /\ ~LoginPending(g, reg[g].login)
          /\ \E u \in FreeUserIDs :
                /\ \A v \in FreeUserIDs : u <= v
                /\ reg' = [reg EXCEPT ![g].pc = "balance", ![g].id = u]
          /\ UNCHANGED faults
       \/ /\ LoginTaken(reg[g].login)
          /\ reg' = [reg EXCEPT ![g].pc = "leaked", ![g].err = ErrLoginAlreadyTaken]
          /\ UNCHANGED faults
       \/ /\ CanFail
          /\ faults' = faults + 1
          /\ \/ reg' = [reg EXCEPT ![g].pc = "leaked", ![g].err = ErrStmt]
             \/ \E e \in {ErrStmt, ErrTx} :
                   reg' = [reg EXCEPT ![g].pc = "done", ![g].err = e]
    /\ UNCHANGED <<dbVars, users, balanceRows, ordersChannel, pollerVars, workerVars>>
    /\ UNCHANGED <<requestVars, crashed, clientVars, restarts, submitted, cancelled>>
    /\ UNCHANGED <<decided, called, written>>

\* INSERT INTO "user-balance" (user_id) VALUES ($1).  A failed Prepare returns
\* without Rollback, the "user" row still inserted in the open transaction; a
\* failed Exec rolls back.
UserCreateInsertBalance(g) ==
    /\ Running
    /\ reg[g].pc = "balance"
    /\ \/ /\ reg' = [reg EXCEPT ![g].pc = "commit"]
          /\ UNCHANGED faults
       \/ /\ CanFail
          /\ faults' = faults + 1
          /\ \/ reg' = [reg EXCEPT ![g].pc = "leaked", ![g].err = ErrStmt]
             \/ \E e \in {ErrStmt, ErrTx} :
                   reg' = [reg EXCEPT ![g].pc = "done", ![g].id = 0, ![g].err = e]
    /\ UNCHANGED <<dbVars, users, balanceRows, ordersChannel, pollerVars, workerVars>>
    /\ UNCHANGED <<requestVars, crashed, clientVars, restarts, submitted, cancelled>>
    /\ UNCHANGED <<decided, called, written>>

\* A Commit that publishes the "user" row alone.
CommitNoUserBalance(g) == balanceRows

\* The writes of the registration transaction, as Commit makes them visible.
CommitUser(g) == Append(users, [id |-> reg[g].id, login |-> reg[g].login])
CommitUserBalance(g) == Append(balanceRows, reg[g].id)

\* transaction.Commit: nil, or an error that Create returns, with the
\* transaction rolled back or, the reply lost, applied.
UserCreateCommit(g) ==
    /\ Running
    /\ reg[g].pc = "commit"
    /\ \/ /\ reg' = [reg EXCEPT ![g].pc = "done"]
          /\ users' = CommitUser(g)
          /\ balanceRows' = CommitUserBalance(g)
          /\ balance' = [balance EXCEPT ![reg[g].id] = UserBalanceDefault]
          /\ withdrawn' = [withdrawn EXCEPT ![reg[g].id] = UserBalanceDefault]
          /\ UNCHANGED faults
       \/ /\ CanFail
          /\ faults' = faults + 1
          /\ reg' = [reg EXCEPT ![g].pc = "done", ![g].id = 0, ![g].err = ErrTx]
          /\ \/ UNCHANGED <<users, balanceRows, balance, withdrawn>>
             \/ /\ users' = CommitUser(g)
                /\ balanceRows' = CommitUserBalance(g)
                /\ balance' = [balance EXCEPT ![reg[g].id] = UserBalanceDefault]
                /\ withdrawn' = [withdrawn EXCEPT ![reg[g].id] = UserBalanceDefault]
    /\ UNCHANGED <<ostatus, ouser, ocreated, accrual, withdrawals, rowLock>>
    /\ UNCHANGED <<ordersChannel, pollerVars, workerVars>>
    /\ UNCHANGED <<requestVars, crashed, clientVars, restarts, submitted, cancelled>>
    /\ UNCHANGED <<decided, called, written>>

\* database/sql rolls back the transaction Create has left open once the
\* request's context is done, after RegisterHandler.ServeHTTP has returned.
UserCreateAwaitDone(g) ==
    /\ Running
    /\ reg[g].pc = "leaked"
    /\ reg' = [reg EXCEPT ![g].pc = "done", ![g].id = 0]
    /\ UNCHANGED <<dbVars, users, balanceRows, ordersChannel, pollerVars, workerVars>>
    /\ UNCHANGED <<requestVars, faults, crashed, clientVars, restarts, submitted, cancelled>>
    /\ UNCHANGED <<decided, called, written>>

Register(g) ==
    \/ UserCreateBegin(g)
    \/ UserCreateInsertUser(g)
    \/ UserCreateInsertBalance(g)
    \/ UserCreateCommit(g)
    \/ UserCreateAwaitDone(g)

----------------------------------------------------------------------------
\* AccrualRepository: the rate-limit cooldown.  Times are in seconds; a
\* time.Duration counts nanoseconds.
MaxTime == 6
MaxRetryAfter == 3
NanosPerSecond == 1000000000
\* The zero time.Time (IsZero).
ZeroTime == 0

ResponseCodes ==
    {StatusOK, StatusNoContent, StatusTooManyRequests, StatusInternalServerError,
     StatusOther}

\* AccrualRepository.CanDoRequest on a receiver whose retryAfter is t.
CanDoRequest(t) ==
    IF t = ZeroTime THEN TRUE
    ELSE IF t < now THEN TRUE
    ELSE FALSE

\* AccrualRepository.GetSleepDuration on a receiver whose retryAfter is t, in
\* seconds: time.Duration(time.Until(t).Seconds()) is that many nanoseconds.
GetSleepDuration(t) ==
    IF t = ZeroTime THEN 0 ELSE (t - now) \div NanosPerSecond

\* time.Now().Add(time.Duration(retryAfterHeaderValue)): the header's number
\* taken as nanoseconds.
RetryAfterTime(retryAfterHeaderValue) == now + retryAfterHeaderValue \div NanosPerSecond

\* GetOrder has a value receiver: a is a copy of the repository the service
\* holds, so the assignment a.retryAfter = ... leaves that repository's field
\* as it was.
StoredRetryAfter(w, t) == retryAfter

\* GetOrder, entry: the receiver is copied; if !a.CanDoRequest() the call sleeps
\* for a.GetSleepDuration().
GetOrderEnter(w) ==
    /\ Running
    /\ apc[w] = "idle"
    /\ acopy' = [acopy EXCEPT ![w] = retryAfter]
    /\ IF CanDoRequest(retryAfter)
       THEN /\ apc' = [apc EXCEPT ![w] = "request"]
            /\ UNCHANGED awake
       ELSE /\ apc' = [apc EXCEPT ![w] = "sleep"]
            /\ awake' = [awake EXCEPT ![w] = now + GetSleepDuration(retryAfter)]
    /\ UNCHANGED <<now, retryAfter, cooldownUntil>>
    /\ UNCHANGED <<dbVars, ordersChannel, pollerVars, workerVars, requestVars, faults, crashed>>
    /\ UNCHANGED <<aresp, restarts, submitted, cancelled, decided, called, registerVars, written>>

\* The call is about to send its request: it did not sleep, or its sleep is over.
ReadyToSend(w) == apc[w] = "request" \/ (apc[w] = "sleep" /\ now >= awake[w])

\* The Retry-After header of a response: not there, there with a value that is
\* no number, or there with a number of seconds.
RetryAfterShapes == {"absent", "malformed", "seconds"}

\* The run-time panic of response.Header()["Retry-After"][0] on a response
\* without the header.
PanicIndexOutOfRange == "panic: index out of range"

\* GetOrder: the error returned for the response's status code and, for a 429,
\* the shape of its Retry-After header.
GetOrderError(code, shape) ==
    CASE code = StatusTooManyRequests ->
            ( CASE shape = "absent" -> PanicIndexOutOfRange
                [] shape = "malformed" -> ErrSyntax
                [] OTHER -> ErrTooManyRequests )
      [] code = StatusNoContent -> ErrOrderNotRegistered
      [] code = StatusInternalServerError -> ErrExternalAccrualServiceNotAvailable
      [] code = StatusOK -> Nil
      [] OTHER -> ErrUnexpectedBehaviour

\* GetOrder: the GET to the authority and the switch on the response's status
\* code.  A 200 carries a body with a status; a 429 carries Retry-After: d, or a
\* value that is no number (the call returns Atoi's error), or no such header
\* (the index expression panics in the worker's goroutine and the process ends).
GetOrderRequest(w) ==
    /\ Running
    /\ ReadyToSend(w)
    /\ \E code \in ResponseCodes, shape \in RetryAfterShapes, d \in 1..MaxRetryAfter,
          body \in GetOrderStatuses :
          /\ code # StatusTooManyRequests => shape = "seconds"
          /\ (code # StatusTooManyRequests \/ shape # "seconds") => d = 1
          /\ code # StatusOK => body = ExternalOrderStatusRegistered
          /\ IF code = StatusTooManyRequests /\ shape = "seconds"
             THEN /\ retryAfter' = StoredRetryAfter(w, RetryAfterTime(d))
                  /\ cooldownUntil' =
                        IF now + d > cooldownUntil THEN now + d ELSE cooldownUntil
             ELSE UNCHANGED <<retryAfter, cooldownUntil>>
          /\ crashed' = (GetOrderError(code, shape) = PanicIndexOutOfRange)
          /\ aresp' = [aresp EXCEPT ![w] =
                         [code |-> code,
                          header |-> IF code = StatusTooManyRequests THEN shape ELSE Nil,
                          body |-> IF code = StatusOK THEN body ELSE Nil,
                          status |-> IF GetOrderError(code, shape) = Nil THEN body ELSE Nil,
                          err |-> GetOrderError(code, shape)]]
    /\ apc' = [apc EXCEPT ![w] = "idle"]
    /\ acopy' = [acopy EXCEPT ![w] = ZeroTime]
    /\ awake' = [awake EXCEPT ![w] = ZeroTime]
    /\ UNCHANGED now
    /\ UNCHANGED <<dbVars, ordersChannel, pollerVars, workerVars, requestVars, faults>>
    /\ UNCHANGED <<restarts, submitted, cancelled, decided, called, registerVars, written>>

\* A second passes.
Tick ==
    /\ Running
    /\ now < MaxTime
    /\ now' = now + 1
    /\ UNCHANGED <<retryAfter, apc, acopy, awake, cooldownUntil>>
    /\ UNCHANGED <<dbVars, ordersChannel, pollerVars, workerVars, requestVars, faults, crashed>>
    /\ UNCHANGED <<aresp, restarts, submitted, cancelled, decided, called, registerVars, written>>

----------------------------------------------------------------------------
\* The state after construction: empty tables, the dispatch loop at its select,
\* the workers at theirs, no request in flight.
Idle ==
    /\ withdrawn = [u \in Users |-> 0]
    /\ withdrawals = <<>>
    /\ rowLock = [u \in Users |-> NoTx]
    /\ ordersChannel = <<>>
    /\ ppc = "select"
    /\ plist = <<>>
    /\ wpc = [w \in Workers |-> "idle"]
    /\ word = [w \in Workers |-> 0]
    /\ wout = [w \in Workers |-> Nil]
    /\ wacc = [w \in Workers |-> 0]
    /\ werr = [w \in Workers |-> Nil]
    /\ rpc = [r \in Requests |-> "idle"]
    /\ ruser = [r \in Requests |-> 0]
    /\ rnum = [r \in Requests |-> 0]
    /\ ramt = [r \in Requests |-> 0]
    /\ rres = [r \in Requests |-> Nil]
    /\ faults = 0
    /\ crashed = FALSE
    /\ now = 1
    /\ retryAfter = ZeroTime
    /\ apc = [w \in Workers |-> "idle"]
    /\ acopy = [w \in Workers |-> ZeroTime]
    /\ awake = [w \in Workers |-> ZeroTime]
    /\ cooldownUntil = ZeroTime
    /\ restarts = 0
    /\ submitted = NoSubmission
    /\ aresp = [w \in Workers |-> NoResponse]
    /\ cancelled = FALSE
    /\ decided = [o \in Orders |-> Nil]
    /\ called = NoCall
    /\ reg = [g \in Registrations |-> NoRegistration]
    /\ written = 0

Init ==
    /\ ostatus = [o \in Orders |-> Absent]
    /\ ouser = [o \in Orders |-> 0]
    /\ ocreated = <<>>
    /\ accrual = <<>>
    /\ balance = [u \in Users |-> 0]
    /\ AllRegistered
    /\ Idle

\* The state once order 1 of user 1 has been credited with b points and nothing
\* else has happened.
Funded(b) ==
    /\ ostatus = [o \in Orders |-> IF o = 1 THEN OrderStatusProcessed ELSE Absent]
    /\ ouser = [o \in Orders |-> IF o = 1 THEN 1 ELSE 0]
    /\ ocreated = <<1>>
    /\ accrual = <<[order |-> 1, user |-> 1, amount |-> b]>>
    /\ balance = [u \in Users |-> IF u = 1 THEN b ELSE 0]
    /\ AllRegistered
    /\ Idle

InitFunded == \E b \in Accruals : Funded(b)

Poller ==
    \/ PollerFetch
    \/ PollerFlip
    \/ PollerEnqueue
    \/ PollerSleep
    \/ \E w \in Workers : PollerRecvErr(w)

Worker(w) ==
    \/ WorkerDequeue(w)
    \/ WorkerGetOrder(w)
    \/ WorkerSetStatus(w)
    \/ WorkerRevert(w)
    \/ TxBegin(w)
    \/ TxUpdateStatus(w)
    \/ TxInsertAccrual(w)
    \/ TxUpdateBalance(w)
    \/ TxCommit(w)
    \/ WorkerReturn(w)

\* The submission handler, for any order number and any authenticated user (up
\* to the renaming of users: order n belongs to one of the users 1..n).
Submit == \E n \in Orders, u \in Users : u <= n /\ Create(n, u)

Next ==
    \/ Submit
    \/ Poller
    \/ \E w \in Workers : Worker(w)

Spec == Init /\ [][Next]_vars

\* The ledger: the credit path of one worker on one order, concurrent with the
\* withdrawal requests.
LedgerWorker(w) ==
    \/ WorkerDequeue(w)
    \/ WorkerGetOrderProcessed(w)
    \/ WorkerRevert(w)
    \/ TxBegin(w)
    \/ TxUpdateStatus(w)
    \/ TxInsertAccrual(w)
    \/ TxUpdateBalance(w)
    \/ TxCommit(w)
    \/ WorkerReturn(w)

LedgerNext ==
    \/ Create(1, 1)
    \/ Poller
    \/ LedgerWorker(1)
    \/ \E r \in Requests : Request(r)

SpecLedger == Init /\ [][LedgerNext]_vars

\* The process is killed at any point and started again (Run): what the store
\* has committed stays; the transactions that were open are rolled back by the
\* server; the queue, the positions of the dispatch loop and of the workers, the
\* orders they held and the client's retryAfter are those of a fresh start.
Restart ==
    /\ restarts < MaxRestarts
    /\ restarts' = restarts + 1
    /\ rowLock' = [u \in Users |-> NoTx]
    /\ ordersChannel' = <<>>
    /\ ppc' = "select"
    /\ plist' = <<>>
    /\ wpc' = [w \in Workers |-> "idle"]
    /\ word' = [w \in Workers |-> 0]
    /\ wout' = [w \in Workers |-> Nil]
    /\ wacc' = [w \in Workers |-> 0]
    /\ werr' = [w \in Workers |-> Nil]
    /\ rpc' = [r \in Requests |-> IF rpc[r] = "idle" THEN "idle" ELSE "done"]
    /\ crashed' = FALSE
    /\ retryAfter' = ZeroTime
    /\ apc' = [w \in Workers |-> "idle"]
    /\ acopy' = [w \in Workers |-> ZeroTime]
    /\ awake' = [w \in Workers |-> ZeroTime]
    /\ UNCHANGED <<ostatus, ouser, ocreated, accrual, balance, withdrawn, withdrawals>>
    /\ aresp' = [w \in Workers |-> NoResponse]
    /\ cancelled' = FALSE
    /\ UNCHANGED <<ruser, rnum, ramt, rres, faults, now, cooldownUntil, submitted>>
    /\ UNCHANGED <<decided, called, registerVars, written>>

\* The call of GetOrder with any answer but REGISTERED.
WorkerGetOrderResolving(w) ==
    GetOrderFrom(w, GetOrderOutcomes \ {ExternalOrderStatusRegistered})

\* The dispatch loop and a worker while no store operation fails and the
\* authority does not answer REGISTERED: no error is returned or sent.
HealthyPoller ==
    \/ PollerFetch
    \/ PollerFlip
    \/ PollerEnqueue
    \/ PollerSleep

HealthyWorker(w) ==
    \/ WorkerDequeue(w)
    \/ WorkerGetOrderResolving(w)
    \/ WorkerSetStatus(w)
    \/ TxBegin(w)
    \/ TxUpdateStatus(w)
    \/ TxInsertAccrual(w)
    \/ TxUpdateBalance(w)
    \/ TxCommit(w)
    \/ WorkerReturn(w)

\* A store that does not fail: the fault budget is spent from the start.
InitHealthy ==
    /\ ostatus = [o \in Orders |-> Absent]
    /\ ouser = [o \in Orders |-> 0]
    /\ ocreated = <<>>
    /\ accrual = <<>>
    /\ balance = [u \in Users |-> 0]
    /\ withdrawn = [u \in Users |-> 0]
    /\ withdrawals = <<>>
    /\ rowLock = [u \in Users |-> NoTx]
    /\ ordersChannel = <<>>
    /\ ppc = "select"
    /\ plist = <<>>
    /\ wpc = [w \in Workers |-> "idle"]
    /\ word = [w \in Workers |-> 0]
    /\ wout = [w \in Workers |-> Nil]
    /\ wacc = [w \in Workers |-> 0]
    /\ werr = [w \in Workers |-> Nil]
    /\ rpc = [r \in Requests |-> "idle"]
    /\ ruser = [r \in Requests |-> 0]
    /\ rnum = [r \in Requests |-> 0]
    /\ ramt = [r \in Requests |-> 0]
    /\ rres = [r \in Requests |-> Nil]
    /\ faults = MaxFaults
    /\ crashed = FALSE
    /\ now = 1
    /\ retryAfter = ZeroTime
    /\ apc = [w \in Workers |-> "idle"]
    /\ acopy = [w \in Workers |-> ZeroTime]
    /\ awake = [w \in Workers |-> ZeroTime]
    /\ cooldownUntil = ZeroTime
    /\ restarts = 0
    /\ submitted = NoSubmission
    /\ aresp = [w \in Workers |-> NoResponse]
    /\ cancelled = FALSE
    /\ decided = [o \in Orders |-> Nil]
    /\ called = NoCall
    /\ reg = [g \in Registrations |-> NoRegistration]
    /\ AllRegistered
    /\ written = 0

\* The pipeline on a healthy store, the process being killed and started again
\* at most MaxRestarts times.  The goroutines of the dispatch loop and of the
\* workers are scheduled fairly.
RestartNext ==
    \/ Submit
    \/ HealthyPoller
    \/ \E w \in Workers : HealthyWorker(w)
    \/ Restart

SpecRestart ==
    /\ InitHealthy
    /\ [][RestartNext]_vars
    /\ WF_vars(HealthyPoller)
    /\ \A w \in Workers : WF_vars(HealthyWorker(w))

\* The pipeline on a healthy store under a cancellation of its context, the
\* authority not answering REGISTERED: a store operation fails only because the
\* context is done.  The goroutines are scheduled fairly.
CancelPoller ==
    \/ Poller
    \/ PollerDone

CancelWorker(w) ==
    \/ HealthyWorker(w)
    \/ WorkerRevert(w)
    \/ WorkerDone(w)

CancelNext ==
    \/ Submit
    \/ CancelPoller
    \/ \E w \in Workers : CancelWorker(w)
    \/ Cancel

SpecCancel ==
    /\ InitHealthy
    /\ [][CancelNext]_vars
    /\ WF_vars(CancelPoller)
    /\ \A w \in Workers : WF_vars(CancelWorker(w))

\* The pipeline with WorkersNumber configured as 1: WorkerLoop starts worker 1
\* alone.  The store may fail, the authority does not answer REGISTERED, and
\* the goroutines of the dispatch loop and of the worker are scheduled fairly.
SingleWorker ==
    \/ HealthyWorker(1)
    \/ WorkerRevert(1)

SingleNext ==
    \/ Submit
    \/ Poller
    \/ SingleWorker

SpecSingle ==
    /\ Init
    /\ [][SingleNext]_vars
    /\ WF_vars(Poller)
    /\ WF_vars(SingleWorker)

\* The authority settles on a submitted order: from then on it gives one final
\* answer for it, PROCESSED, INVALID or not registered; until then it gives any
\* other answer.
FinalAnswers ==
    {ExternalOrderStatusProcessed, ExternalOrderStatusInvalid, ErrOrderNotRegistered}

Decide(o) ==
    /\ Running
    /\ ostatus[o] # Absent
    /\ decided[o] = Nil
    /\ \E answer \in FinalAnswers : decided' = [decided EXCEPT ![o] = answer]
    /\ UNCHANGED <<dbVars, ordersChannel, pollerVars, workerVars, requestVars, faults, crashed>>
    /\ UNCHANGED <<clientVars, restarts, submitted, cancelled, called, registerVars, written>>

\* The call of GetOrder for the order the worker holds, answered as the
\* authority stands on it.
WorkerGetOrderDecided(w) ==
    GetOrderFrom(w, IF decided[word[w]] = Nil
                    THEN GetOrderOutcomes \ FinalAnswers
                    ELSE {decided[word[w]]})

DecideWorker(w) ==
    \/ WorkerDequeue(w)
    \/ WorkerGetOrderDecided(w)
    \/ WorkerSetStatus(w)
    \/ TxBegin(w)
    \/ TxUpdateStatus(w)
    \/ TxInsertAccrual(w)
    \/ TxUpdateBalance(w)
    \/ TxCommit(w)
    \/ WorkerReturn(w)

\* The pipeline on a healthy store, never cancelled, with an authority that
\* settles; the goroutines are scheduled fairly.
DecideNext ==
    \/ Submit
    \/ HealthyPoller
    \/ \E w \in Workers : DecideWorker(w)
    \/ \E o \in Orders : Decide(o)

SpecDecide ==
    /\ InitHealthy
    /\ [][DecideNext]_vars
    /\ WF_vars(HealthyPoller)
    /\ \A w \in Workers : WF_vars(DecideWorker(w))

\* The Order Store under direct calls of its two update operations.
StoreNext ==
    \/ Submit
    \/ \E o \in Orders, st \in CallStatuses : UpdateOrderStatusCall(o, st)
    \/ \E o \in Orders, st \in CallStatuses, a \in Accruals :
          UpdateOrderAndPasteAccrual(o, st, a)

SpecStore == Init /\ [][StoreNext]_vars

\* The submissions, of any number by any user (a new order n goes to one of the
\* users 1..n), while the dispatch loop and a worker process the orders.
SubmitAny ==
    \E n \in Orders, u \in Users :
       /\ ostatus[n] = Absent => u <= n
       /\ RegisterOrder(n, u)
       /\ written' = submitted'.code

SubmitNext ==
    \/ SubmitAny
    \/ Poller
    \/ Worker(1)

SpecSubmit == Init /\ [][SubmitNext]_vars

\* The withdrawal requests and the order submissions side by side, on the
\* balance a credited order has left; the numbers of both are drawn from the
\* same set.
NamespaceNext ==
    \/ \E r \in Requests : Request(r)
    \/ SubmitAny

SpecNamespace == InitFunded /\ [][NamespaceNext]_vars

\* The submission handler under any request body of any user.
HandlerNext == \E text \in Payloads, u \in Users : RegisterOrderHandler(text, u)

SpecHandler == Init /\ [][HandlerNext]_vars

\* The registrations, concurrent, from tables "user" and "user-balance" empty.
InitRegister ==
    /\ ostatus = [o \in Orders |-> Absent]
    /\ ouser = [o \in Orders |-> 0]
    /\ ocreated = <<>>
    /\ accrual = <<>>
    /\ balance = [u \in Users |-> 0]
    /\ users = <<>>
    /\ balanceRows = <<>>
    /\ Idle

RegisterNext == \E g \in Registrations : Register(g)

SpecRegister == InitRegister /\ [][RegisterNext]_vars

\* The accrual client under calls of the workers, with time passing.
ClientNext ==
    \/ \E w \in Workers : GetOrderEnter(w)
    \/ \E w \in Workers : GetOrderRequest(w)
    \/ Tick

SpecClient == Init /\ [][ClientNext]_vars

\* The withdrawal requests alone, on the balance a credited order has left.
WithdrawNext == \E r \in Requests : Request(r)

SpecWithdraw == InitFunded /\ [][WithdrawNext]_vars

----------------------------------------------------------------------------
\* The rows of "accrual" for an order, and the positions of a worker inside
\* UpdateOrderAndPasteAccrual.
AccrualRows(o) == SelectSeq(accrual, LAMBDA row : row.order = o)
TxPcs == {"tx_begin", "tx_status", "tx_accrual", "tx_balance", "tx_commit"}
\* A step in which OrderService.UpdateOrderStatus returns to the worker w.
Returns(w) == wpc[w] # "ret" /\ wpc'[w] = "ret"

\* C1: when UpdateOrderStatus returns for an order (PROCESSING on entry), the
\* order's stored status is NEW, PROCESSED or INVALID, never PROCESSING, for every
\* answer of the authority and whether the store operations succeed or fail.
C1_NeverLeftProcessing ==
    [][\A w \in Workers :
          Returns(w) =>
             ostatus'[word[w]] \in
                {OrderStatusNew, OrderStatusProcessed, OrderStatusInvalid}]_vars

\* C5: an order is PROCESSED if and only if exactly one accrual row exists for it.
C5_ProcessedIffOneCredit ==
    \A o \in Orders :
       (ostatus[o] = OrderStatusProcessed) <=> (Len(AccrualRows(o)) = 1)

\* C6: the credit of an order is applied at most once: no order ever has more
\* than one committed accrual row.
C6_CreditAtMostOnce == \A o \in Orders : Len(AccrualRows(o)) <= 1

\* C7: when UpdateOrderAndPasteAccrual returns an error, from whichever step, the
\* order's status, the accrual table and the balances are as before the call:
\* the step that fails changes none of them (the writes before it are private).
C7_FailureLeavesNoEffect ==
    [][\A w \in Workers :
          (wpc[w] \in TxPcs /\ wpc'[w] = "revert") =>
             /\ werr'[w] # Nil
             /\ ostatus' = ostatus
             /\ accrual' = accrual
             /\ balance' = balance]_vars

\* C8: for the answers REGISTERED and PROCESSING of the authority, when no store
\* update failed, UpdateOrderStatus returns with the order in NEW.
C8_RegisteredOrProcessingToNew ==
    [][\A w \in Workers :
          ( /\ Returns(w)
            /\ wout'[w] \in {ExternalOrderStatusRegistered, ExternalOrderStatusProcessing}
            /\ werr'[w] = Nil ) =>
             ostatus'[word[w]] = OrderStatusNew]_vars

\* The sum of the credits committed for a user's orders, and of the amounts of
\* the user's committed withdrawal rows.
Credits(u) == SumAmounts(SelectSeq(accrual, LAMBDA row : row.user = u))
Debits(u) == SumAmounts(SelectSeq(withdrawals, LAMBDA row : row.user = u))

\* C2: at every point each user's balance is the sum of the committed credits
\* minus the sum of the committed withdrawals.
C2_BalanceIsLedgerSum == \A u \in Users : balance[u] = Credits(u) - Debits(u)

\* A user has a committed credit and a committed withdrawal of a positive amount.
C2_Witness ==
    \E u \in Users :
       /\ Credits(u) > 0
       /\ \E i \in 1..Len(withdrawals) :
             withdrawals[i].user = u /\ withdrawals[i].amount > 0

\* C3: no balance is ever negative.
C3_BalanceNonNegative == \A u \in Users : balance[u] >= 0

\* A credited user has withdrawn down to a balance of 0 and a further request of
\* the user was refused.
C3_Witness ==
    \E u \in Users, r \in Requests :
       /\ Credits(u) > 0
       /\ balance[u] = 0
       /\ rpc[r] = "done" /\ ruser[r] = u /\ rres[r] = ErrNotEnoughPoints

\* C4: two withdrawal calls of one user, the only calls made, nothing failing
\* in the store, with amounts a and b and starting balance B such that a <= B,
\* b <= B and a + b > B:
\* exactly one succeeds, the other returns ErrNotEnoughPoints, and the balance
\* ends at B minus the amount of the one that succeeded.
C4_ConcurrentWithdrawalsSerialize ==
    \A r1, r2 \in Requests :
       ( /\ r1 # r2
         /\ rpc[r1] = "done" /\ rpc[r2] = "done"
         /\ ruser[r1] = ruser[r2]
         /\ \A q \in Requests \ {r1, r2} : rpc[q] = "idle"
         /\ faults = 0
         /\ ramt[r1] <= Credits(ruser[r1])
         /\ ramt[r2] <= Credits(ruser[r1])
         /\ ramt[r1] + ramt[r2] > Credits(ruser[r1]) )
       => \/ /\ rres[r1] = Nil
             /\ rres[r2] = ErrNotEnoughPoints
             /\ balance[ruser[r1]] = Credits(ruser[r1]) - ramt[r1]
          \/ /\ rres[r2] = Nil
             /\ rres[r1] = ErrNotEnoughPoints
             /\ balance[ruser[r1]] = Credits(ruser[r1]) - ramt[r2]

\* Both calls have ended and the one that began second has overtaken the first:
\* it succeeded and the first was refused.
C4_Witness ==
    /\ rpc[1] = "done" /\ rpc[2] = "done"
    /\ ruser[1] = ruser[2]
    /\ faults = 0
    /\ ramt[1] <= Credits(ruser[1])
    /\ ramt[2] <= Credits(ruser[1])
    /\ ramt[1] + ramt[2] > Credits(ruser[1])
    /\ rres[1] = ErrNotEnoughPoints
    /\ rres[2] = Nil

\* C10: a withdrawal call that finds its amount above the balance it reads ends
\* there with ErrNotEnoughPoints (no store operation failing), and the balance,
\* the withdrawn sum and the withdrawal rows are unchanged.
C10_InsufficientBalanceRejected ==
    [][\A r \in Requests :
          ( /\ rpc[r] = "select"
            /\ rpc'[r] # "select"
            /\ faults' = faults
            /\ ramt[r] > balance[ruser[r]] ) =>
             /\ rpc'[r] = "done"
             /\ rres'[r] = ErrNotEnoughPoints
             /\ balance' = balance
             /\ withdrawn' = withdrawn
             /\ withdrawals' = withdrawals]_vars

\* A call for more than the user's positive balance has been refused.
C10_Witness ==
    \E r \in Requests :
       /\ rpc[r] = "done"
       /\ rres[r] = ErrNotEnoughPoints
       /\ balance[ruser[r]] > 0
       /\ ramt[r] > balance[ruser[r]]
       /\ withdrawals = <<>>

\* C9: while the deadline a 429 has announced (its observation time t plus its
\* Retry-After d) is ahead, a GetOrder call that begins does not go on to send
\* its request: it sleeps, and its sleep does not end before the deadline.
C9_NoRequestDuringCooldown ==
    [][\A w \in Workers :
          (apc[w] = "idle" /\ apc'[w] # "idle" /\ now < cooldownUntil) =>
             /\ apc'[w] = "sleep"
             /\ awake'[w] >= cooldownUntil]_vars

\* C11: a withdrawal call whose number a committed withdrawal row (of any user)
\* already has ends its INSERT, no store operation failing, with
\* ErrWithdrawalOrderAlreadyExists; and no step of a call that returns this error
\* changes a balance, a withdrawn sum or the withdrawal rows.
C11_DuplicateNumberRejected ==
    [][\A r \in Requests :
          /\ ( /\ rpc[r] = "insert"
               /\ rpc'[r] # "insert"
               /\ faults' = faults
               /\ \E i \in 1..Len(withdrawals) : withdrawals[i].number = rnum[r] ) =>
                  rres'[r] = ErrWithdrawalOrderAlreadyExists
          /\ ( /\ rres'[r] = ErrWithdrawalOrderAlreadyExists
               /\ rpc'[r] # rpc[r] ) =>
                  /\ rpc'[r] \in {"leaked", "done"}
                  /\ balance' = balance
                  /\ withdrawn' = withdrawn
                  /\ withdrawals' = withdrawals]_vars

\* A call that passed the balance check with a positive amount and ran its debit
\* has been refused for its number, which another user's withdrawal has.
C11_Witness ==
    \E r \in Requests :
       /\ rpc[r] = "done"
       /\ rres[r] = ErrWithdrawalOrderAlreadyExists
       /\ ramt[r] > 0
       /\ \E i \in 1..Len(withdrawals) :
             /\ withdrawals[i].number = rnum[r]
             /\ withdrawals[i].user # ruser[r]
       /\ balance[ruser[r]] = Credits(ruser[r]) - Debits(ruser[r])

\* C12: no step decreases a user's cumulative withdrawn amount.
C12_WithdrawnNeverDecreases ==
    [][\A u \in Users : withdrawn'[u] >= withdrawn[u]]_vars

\* C13: when the authority has answered PROCESSED with accrual a for an order of
\* user u and every store operation of the call succeeds, the commit sets the
\* order to PROCESSED, records one credit row of amount a for it and adds
\* exactly a to u's balance, leaving the other balances and every withdrawn
\* amount as they were; and the routine then returns no error with the order
\* PROCESSED and the credit recorded.
C13_ProcessedCreditsExactly ==
    [][\A w \in Workers :
          /\ (wpc[w] = "tx_commit" /\ wpc'[w] = "ret") =>
                /\ wout[w] = ExternalOrderStatusProcessed
                /\ ostatus'[word[w]] = OrderStatusProcessed
                /\ accrual' = Append(accrual, [order |-> word[w],
                                               user |-> ouser[word[w]],
                                               amount |-> wacc[w]])
                /\ balance'[ouser[word[w]]] = balance[ouser[word[w]]] + wacc[w]
                /\ \A u \in Users \ {ouser[word[w]]} : balance'[u] = balance[u]
                /\ withdrawn' = withdrawn
          /\ ( /\ wpc[w] = "ret" /\ wpc'[w] # "ret"
               /\ wout[w] = ExternalOrderStatusProcessed /\ werr[w] = Nil ) =>
                /\ wpc'[w] = "idle"
                /\ ostatus[word[w]] = OrderStatusProcessed
                /\ \E i \in 1..Len(accrual) :
                      accrual[i].order = word[w] /\ accrual[i].amount = wacc[w]]_vars

\* The routine is about to return from a successful credit of the largest
\* accrual to a user whose balance held something already.
C13_Witness ==
    \E w \in Workers :
       /\ wpc[w] = "ret"
       /\ wout[w] = ExternalOrderStatusProcessed
       /\ werr[w] = Nil
       /\ wacc[w] = MaxAccrual
       /\ ostatus[word[w]] = OrderStatusProcessed
       /\ balance[ouser[word[w]]] > wacc[w]

\* C14: a step changes an order's status only along the table: the submission
\* creates it NEW, the poller takes NEW to PROCESSING, and the worker that holds
\* the order takes PROCESSING to NEW, PROCESSED or INVALID.
C14_OnlyTableTransitions ==
    [][\A o \in Orders :
          ostatus'[o] # ostatus[o] =>
             \/ ostatus[o] = Absent /\ ostatus'[o] = OrderStatusNew
             \/ /\ ostatus[o] = OrderStatusNew
                /\ ostatus'[o] = OrderStatusProcessing
                /\ ppc = "loop" /\ ppc' # "loop"
             \/ /\ ostatus[o] = OrderStatusProcessing
                /\ ostatus'[o] \in
                      {OrderStatusNew, OrderStatusProcessed, OrderStatusInvalid}
                /\ \E w \in Workers : word[w] = o /\ wpc'[w] # wpc[w]]_vars

\* C15: once an order is PROCESSED or INVALID no step changes its status, and it
\* is not put on the work queue again.
C15_TerminalIsAbsorbing ==
    [][\A o \in Orders :
          ostatus[o] \in {OrderStatusProcessed, OrderStatusInvalid} =>
             /\ ostatus'[o] = ostatus[o]
             /\ ~ ( /\ Len(ordersChannel') > Len(ordersChannel)
                    /\ ordersChannel'[Len(ordersChannel')] = o )]_vars

\* The outcomes the routine answers with INVALID, and those it answers with NEW
\* for another try: the transient errors and an unrecognized status.
InvalidOutcomes == {ErrOrderNotRegistered, ExternalOrderStatusInvalid}
TransientOutcomes ==
    {ErrTooManyRequests, ErrExternalAccrualServiceNotAvailable,
     ErrUnexpectedBehaviour, ErrTransport, ExternalOrderStatusOther}

\* The routine, having got the outcome, goes to its store update; the update
\* succeeding, the order has the status, no error is kept and no balance or
\* credit row changes; and the worker then goes back to its select without
\* sending on errorsChannel.
ResolvesTo(w, outcomes, status) ==
    /\ (wpc[w] = "call" /\ wout'[w] \in outcomes) => wpc'[w] = "set"
    /\ (wpc[w] = "set" /\ wout[w] \in outcomes /\ wpc'[w] # "set" /\ faults' = faults) =>
          /\ wpc'[w] = "ret"
          /\ ostatus'[word[w]] = status
          /\ werr'[w] = Nil
          /\ balance' = balance
          /\ withdrawn' = withdrawn
          /\ accrual' = accrual
    /\ (wpc[w] = "ret" /\ wout[w] \in outcomes /\ werr[w] = Nil /\ wpc'[w] # "ret") =>
          wpc'[w] = "idle"

\* C16: on NotRegistered, or external status INVALID, the store update
\* succeeding, UpdateOrderStatus sets the order to INVALID, returns no error
\* (nothing goes to errorsChannel) and changes no balance.
C16_NotRegisteredOrInvalidToInvalid ==
    [][\A w \in Workers : ResolvesTo(w, InvalidOutcomes, OrderStatusInvalid)]_vars

\* Two workers are about to return nil, one from NotRegistered and one from
\* external status INVALID, their orders INVALID.
C16_Witness ==
    \E w, v \in Workers :
       /\ wpc[w] = "ret" /\ wpc[v] = "ret"
       /\ wout[w] = ErrOrderNotRegistered /\ wout[v] = ExternalOrderStatusInvalid
       /\ werr[w] = Nil /\ werr[v] = Nil
       /\ ostatus[word[w]] = OrderStatusInvalid
       /\ ostatus[word[v]] = OrderStatusInvalid

\* C17: on a transient outcome of the authority call (rate limit, authority
\* unavailable, unexpected response, transport error) or an unrecognized status,
\* the store update succeeding, UpdateOrderStatus sets the order to NEW, returns
\* no error (nothing goes to errorsChannel) and changes no balance.
C17_TransientToNew ==
    [][\A w \in Workers : ResolvesTo(w, TransientOutcomes, OrderStatusNew)]_vars

\* Two workers are about to return nil, one from a rate limit and one from an
\* unrecognized status, their orders NEW.
C17_Witness ==
    \E w, v \in Workers :
       /\ wpc[w] = "ret" /\ wpc[v] = "ret"
       /\ wout[w] = ErrTooManyRequests /\ wout[v] = ExternalOrderStatusOther
       /\ werr[w] = Nil /\ werr[v] = Nil
       /\ ostatus[word[w]] = OrderStatusNew
       /\ ostatus[word[v]] = OrderStatusNew

\* C18: when a store operation fails while the routine applies PROCESSED (the
\* credit transaction) or INVALID for external status INVALID, the routine goes
\* to the compensating update to NEW with the store's error; when that update
\* succeeds the order is NEW and the error kept is the original one; and the
\* worker, the routine having returned it, goes to send it on errorsChannel.
C18_FailureRevertsAndReports ==
    [][\A w \in Workers :
          /\ ( /\ wpc[w] \in TxPcs \cup {"set"}
               /\ wout[w] \in {ExternalOrderStatusProcessed, ExternalOrderStatusInvalid}
               /\ wpc'[w] # wpc[w]
               /\ faults' # faults ) =>
                  /\ wpc'[w] = "revert"
                  /\ werr'[w] \in {ErrStmt, ErrTx}
          /\ ( /\ wpc[w] = "revert"
               /\ wpc'[w] # "revert"
               /\ werr'[w] # ErrInner ) =>
                  /\ wpc'[w] = "ret"
                  /\ wout[w] \in {ExternalOrderStatusProcessed, ExternalOrderStatusInvalid}
                  /\ ostatus'[word[w]] = OrderStatusNew
                  /\ werr'[w] = werr[w]
                  /\ werr[w] \in {ErrStmt, ErrTx}
          /\ ( /\ wpc[w] = "ret"
               /\ wpc'[w] # "ret"
               /\ werr[w] # Nil ) =>
                  /\ wpc'[w] = "senderr"
                  /\ werr'[w] = werr[w]]_vars

\* The routine is about to return the store's error to the worker, a credit
\* transaction having failed and been compensated: the order is NEW and no
\* credit is recorded.
C18_Witness ==
    \E w \in Workers :
       /\ wpc[w] = "ret"
       /\ wout[w] = ExternalOrderStatusProcessed
       /\ werr[w] \in {ErrStmt, ErrTx}
       /\ ostatus[word[w]] = OrderStatusNew
       /\ accrual = <<>>

\* C19: the process being killed at any point of a cycle and started again, no
\* order remains in PROCESSING forever: an order that is PROCESSING is later NEW,
\* PROCESSED or INVALID.
C19_NoOrderStrandedByCrash ==
    \A o \in Orders :
       (ostatus[o] = OrderStatusProcessing) ~> (ostatus[o] # OrderStatusProcessing)

\* How many rows of "order" have the number.
RowsWithNumber(rows, n) == Len(SelectSeq(rows, LAMBDA o : o = n))

\* C20: a submission of a number that exists, no store operation failing, is
\* answered with ErrOrderAlreadyRegisteredByCurrentUser and 200 when the order
\* is the user's, with ErrOrderAlreadyExists and 409 when it is another user's;
\* the number still has exactly one row and no order's owner or status changes.
C20_ResubmissionIsIdempotent ==
    [][( /\ submitted' # submitted
         /\ ostatus[submitted'.number] # Absent
         /\ faults' = faults ) =>
           /\ ouser[submitted'.number] = submitted'.user =>
                 /\ submitted'.err = ErrOrderAlreadyRegisteredByCurrentUser
                 /\ submitted'.code = StatusOK
           /\ ouser[submitted'.number] # submitted'.user =>
                 /\ submitted'.err = ErrOrderAlreadyExists
                 /\ submitted'.code = StatusConflict
           /\ RowsWithNumber(ocreated', submitted'.number) = 1
           /\ ouser' = ouser
           /\ ostatus' = ostatus]_vars

\* Another user has submitted the number of an order that is already PROCESSED
\* and got the conflict.
C20_Witness ==
    /\ submitted.number \in Orders
    /\ submitted.err = ErrOrderAlreadyExists
    /\ submitted.code = StatusConflict
    /\ ouser[submitted.number] # submitted.user
    /\ ostatus[submitted.number] = OrderStatusProcessed
    /\ faults = 0

----------------------------------------------------------------------------
\* C21: once the context is cancelled, the dispatch loop flips no further order
\* to PROCESSING and puts no further order in ordersChannel, the remaining
\* orders of the cycle in progress included.
C21_NoDispatchAfterCancel ==
    [][cancelled =>
          /\ \A o \in Orders :
                ostatus'[o] = OrderStatusProcessing => ostatus[o] = OrderStatusProcessing
          /\ Len(ordersChannel') <= Len(ordersChannel)]_vars

\* C22: once the context is cancelled, no worker takes a further order from
\* ordersChannel, even if the channel is not empty.
C22_NoDequeueAfterCancel ==
    [][cancelled => \A w \in Workers : ~(wpc[w] = "idle" /\ wpc'[w] = "call")]_vars

\* C23: after the context is cancelled, WorkerLoop and every worker eventually
\* return.
C23_AllReturnAfterCancel ==
    cancelled ~> (ppc = "returned" /\ \A w \in Workers : wpc[w] = "exited")

\* C24: an order that is PROCESSING when the context is cancelled eventually
\* has the status NEW, PROCESSED or INVALID.
C24_CancelStrandsNoOrder ==
    \A o \in Orders :
       (cancelled /\ ostatus[o] = OrderStatusProcessing) ~>
          (ostatus[o] \in {OrderStatusNew, OrderStatusProcessed, OrderStatusInvalid})

----------------------------------------------------------------------------
\* C25: the two update operations are disjoint.  UpdateOrderStatus called with
\* PROCESSED returns ErrWrongMethodUsed and, with a status that is none of NEW,
\* PROCESSING, PROCESSED, INVALID, ErrInvalidStatus; UpdateOrderAndPasteAccrual
\* called with a status other than PROCESSED returns ErrWrongMethodUsed; and a
\* call that returns one of these errors leaves every order's status, the
\* credit rows and the balances as they were.
C25_UpdateOperationsDisjoint ==
    [][called' # called =>
          /\ ( /\ called'.op = "UpdateOrderStatus"
               /\ called'.status = OrderStatusProcessed )
                 => called'.err = ErrWrongMethodUsed
          /\ ( /\ called'.op = "UpdateOrderStatus"
               /\ called'.status \notin {OrderStatusNew, OrderStatusProcessing,
                                          OrderStatusProcessed, OrderStatusInvalid} )
                 => called'.err = ErrInvalidStatus
          /\ ( /\ called'.op = "UpdateOrderAndPasteAccrual"
               /\ called'.status # OrderStatusProcessed )
                 => called'.err = ErrWrongMethodUsed
          /\ called'.err \in {ErrWrongMethodUsed, ErrInvalidStatus}
                 => /\ ostatus' = ostatus
                    /\ accrual' = accrual
                    /\ balance' = balance]_vars

\* UpdateOrderStatus has just been called with PROCESSED for an order that is
\* PROCESSING and has returned ErrWrongMethodUsed, after a credit of another
\* order went through the combined operation.
C25_Witness ==
    /\ called.op = "UpdateOrderStatus"
    /\ called.status = OrderStatusProcessed
    /\ called.err = ErrWrongMethodUsed
    /\ ostatus[called.order] = OrderStatusProcessing
    /\ Len(accrual) = 1
    /\ accrual[1].order # called.order

----------------------------------------------------------------------------
\* C26: GetOrder maps each response of the authority to one outcome: a 200 to
\* the decoded status with no error, a 204 to ErrOrderNotRegistered, a 429 to
\* ErrTooManyRequests, a 500 to ErrExternalAccrualServiceNotAvailable and any
\* other status code to ErrUnexpectedBehaviour.
C26_ResponseMapsToOneOutcome ==
    [][\A w \in Workers :
          (apc[w] # "idle" /\ apc'[w] = "idle" /\ restarts' = restarts) =>
             /\ aresp'[w].code = StatusOK =>
                   aresp'[w].err = Nil /\ aresp'[w].status = aresp'[w].body
             /\ aresp'[w].code = StatusNoContent =>
                   aresp'[w].err = ErrOrderNotRegistered
             /\ aresp'[w].code = StatusTooManyRequests =>
                   aresp'[w].err = ErrTooManyRequests
             /\ aresp'[w].code = StatusInternalServerError =>
                   aresp'[w].err = ErrExternalAccrualServiceNotAvailable
             /\ aresp'[w].code \notin {StatusOK, StatusNoContent, StatusTooManyRequests,
                                       StatusInternalServerError} =>
                   aresp'[w].err = ErrUnexpectedBehaviour]_vars

----------------------------------------------------------------------------
\* C27: the numbers of withdrawals and the numbers of orders are independent.
\* A withdrawal call whose INSERT ends, no store operation failing, goes on to
\* its Commit unless a withdrawal row has its number, whatever orders exist,
\* and is refused as a duplicate only if a withdrawal row has the number; the
\* submission of a number no order has registers the order, whatever
\* withdrawals exist.
C27_NumberNamespacesIndependent ==
    [][/\ \A r \in Requests :
             ( /\ rpc[r] = "insert"
               /\ rpc'[r] # "insert"
               /\ faults' = faults ) =>
                  /\ (\A i \in 1..Len(withdrawals) : withdrawals[i].number # rnum[r])
                        => rpc'[r] = "commit"
                  /\ rres'[r] = ErrWithdrawalOrderAlreadyExists
                        => \E i \in 1..Len(withdrawals) : withdrawals[i].number = rnum[r]
       /\ ( /\ submitted' # submitted
            /\ ostatus[submitted'.number] = Absent
            /\ faults' = faults ) =>
               /\ submitted'.err = Nil
               /\ ostatus'[submitted'.number] = OrderStatusNew]_vars

\* A withdrawal row of a positive amount has the number of the credited order,
\* and another has the number of an order that has been registered with no
\* error.
C27_Witness ==
    /\ \E i \in 1..Len(withdrawals) :
          /\ ostatus[withdrawals[i].number] = OrderStatusProcessed
          /\ withdrawals[i].amount > 0
    /\ \E i \in 1..Len(withdrawals) :
          /\ withdrawals[i].number = submitted.number
          /\ submitted.err = Nil
          /\ ostatus[submitted.number] = OrderStatusNew

----------------------------------------------------------------------------
\* C28: a worker that is sending an error on errorsChannel eventually has sent
\* it and is back at its select.
C28_ErrorPushCompletes ==
    \A w \in Workers : (wpc[w] = "senderr") ~> (wpc[w] = "idle")

\* C29: a store failure on one order does not block another: an order that is
\* NEW while a worker holds a different order on which a store operation has
\* failed is eventually taken by a worker whose routine returns for it, unless
\* WorkerLoop has returned.
C29_FailureBlocksNoOtherOrder ==
    \A o, p \in Orders :
       o # p =>
          ( ( /\ ostatus[o] = OrderStatusNew
              /\ \E w \in Workers : word[w] = p /\ werr[w] # Nil )
            ~> ( \/ ppc = "returned"
                 \/ \E w \in Workers : word[w] = o /\ wpc[w] = "ret" ) )

----------------------------------------------------------------------------
\* C30: with a healthy store and no cancellation, an order that is NEW or
\* PROCESSING once the authority has settled on PROCESSED eventually is
\* PROCESSED, and once it has settled on INVALID or not registered eventually
\* is INVALID, whatever the authority answered for it before.
C30_ReachesDecidedStatus ==
    \A o \in Orders :
       /\ ( /\ decided[o] = ExternalOrderStatusProcessed
            /\ ostatus[o] \in {OrderStatusNew, OrderStatusProcessing} )
             ~> (ostatus[o] = OrderStatusProcessed)
       /\ ( /\ decided[o] \in {ExternalOrderStatusInvalid, ErrOrderNotRegistered}
            /\ ostatus[o] \in {OrderStatusNew, OrderStatusProcessing} )
             ~> (ostatus[o] = OrderStatusInvalid)

----------------------------------------------------------------------------
\* C31: no double dispatch.  Each order has at most one live instance in the
\* pipeline: the copies in ordersChannel, the copy the dispatch loop has flipped
\* and is about to send, and the copies held by workers whose routine has not
\* yet reached its return.
C31_NoDoubleDispatch ==
    \A o \in Orders :
       Cardinality({i \in 1..Len(ordersChannel) : ordersChannel[i] = o})
       + Cardinality({w \in Workers :
                        word[w] = o /\ wpc[w] \in TxPcs \cup {"call", "set", "revert"}})
       + (IF ppc = "enqueue" /\ Head(plist) = o THEN 1 ELSE 0)
       <= 1

\* An order is in ordersChannel again while the worker that set it back to NEW
\* is about to return from its routine.
C31_Witness ==
    \E o \in Orders, w \in Workers :
       /\ ordersChannel = <<o>>
       /\ word[w] = o
       /\ wpc[w] = "ret"
       /\ ostatus[o] = OrderStatusProcessing

----------------------------------------------------------------------------
\* C32: every order that is in ordersChannel, or that a worker has dequeued and
\* not yet transitioned (the worker is in the authority call, before its status
\* update or inside the credit transaction), has stored status PROCESSING.
C32_InFlightIsProcessing ==
    \A o \in Orders :
       ( \/ \E i \in 1..Len(ordersChannel) : ordersChannel[i] = o
         \/ \E w \in Workers : word[w] = o /\ wpc[w] \in TxPcs \cup {"call", "set"} )
       => ostatus[o] = OrderStatusProcessing

\* One order waits in ordersChannel while a worker holds the other one before
\* its status update.
C32_Witness ==
    \E o, p \in Orders, w \in Workers :
       /\ o # p
       /\ ordersChannel = <<o>>
       /\ word[w] = p
       /\ wpc[w] = "set"

----------------------------------------------------------------------------
----------------------------------------------------------------------------
----------------------------------------------------------------------------
\* C35: receiving a worker's error report never stops the dispatch loop.  The
\* loop returns only from its fetch or its flip, with a store failure or after
\* cancellation, and the step that takes a report from a worker leaves the loop
\* at its select with nothing else changed, from where the next fetch starts.
C35_ErrorReportKeepsPolling ==
    [][/\ (ppc # "returned" /\ ppc' = "returned") =>
             /\ ppc \in {"select", "loop"}
             /\ faults' = faults + 1 \/ cancelled
             /\ \A w \in Workers : wpc[w] = "senderr" => wpc'[w] = "senderr"
       /\ \A w \in Workers :
             (wpc[w] = "senderr" /\ wpc'[w] # "senderr") =>
                /\ ppc = "select"
                /\ ppc' = "select"
                /\ plist' = plist
                /\ ordersChannel' = ordersChannel]_vars

\* A store failure inside a worker has been reported and consumed (every worker
\* is idle again, the fault is spent) and the loop is dispatching a later fetch.
C35_Witness ==
    /\ faults = MaxFaults
    /\ \A w \in Workers : wpc[w] = "idle"
    /\ ppc = "enqueue"

----------------------------------------------------------------------------
\* C36: a withdraw call that has returned an error has ended its transaction:
\* it holds the row lock of no user's balance, so that a later withdrawal or
\* credit of the same user does not wait for it.
C36_ErrorReleasesRowLock ==
    \A r \in Requests :
       (rpc[r] \in {"done", "leaked"} /\ rres[r] # Nil) =>
          \A u \in Users : rowLock[u] # RequestTx(r)

----------------------------------------------------------------------------
\* C37: after any sequence of successful and failed registrations every "user"
\* row has exactly one "user-balance" row and every "user-balance" row has its
\* "user" row; the two rows appear in the same step, with balance 0 and
\* withdrawn sum 0.
C37_UserHasOneBalance ==
    /\ [](/\ \A i \in 1..Len(users) :
               Cardinality({j \in 1..Len(balanceRows) : balanceRows[j] = users[i].id}) = 1
          /\ \A j \in 1..Len(balanceRows) :
               \E i \in 1..Len(users) : users[i].id = balanceRows[j])
    /\ [][\A u \in Users :
             ( \/ (\E i \in 1..Len(users') : users'[i].id = u)
                    /\ ~(\E i \in 1..Len(users) : users[i].id = u)
               \/ (\E j \in 1..Len(balanceRows') : balanceRows'[j] = u)
                    /\ ~(\E j \in 1..Len(balanceRows) : balanceRows[j] = u) ) =>
                /\ \E i \in 1..Len(users') : users'[i].id = u
                /\ \E j \in 1..Len(balanceRows') : balanceRows'[j] = u
                /\ balance'[u] = 0
                /\ withdrawn'[u] = 0]_vars

\* One registration has committed; a second one with the same login has been
\* refused, and a third one has failed after its "user" row was inserted.
C37_Witness ==
    /\ Len(users) = 1
    /\ \E g, h \in Registrations :
          /\ reg[g].pc = "done"
          /\ reg[g].err = ErrLoginAlreadyTaken
          /\ reg[h].pc = "leaked"
          /\ reg[h].id # 0

----------------------------------------------------------------------------
\* C38: the submission handler calls OrderService.Create, and an order row
\* appears, only for a request body that is a decimal integer passing the Luhn
\* check; a body that is not a number is answered with 422 and creates nothing.
C38_CreateOnlyForValidNumber ==
    [][\A n \in Orders :
          ( \/ submitted' # submitted /\ submitted'.number = n
            \/ ostatus[n] = Absent /\ ostatus'[n] # Absent ) =>
               /\ Atoi(PayloadOf(n)).err = Nil
               /\ Valid(Atoi(PayloadOf(n)).n)]_vars

----------------------------------------------------------------------------
\* C39: a withdrawal request with amount 0 does not reach the withdrawal
\* processor: no call of WithdrawalRepository.Create has amount 0 and no
\* withdrawal row has amount 0.
C39_ZeroAmountNotProcessed ==
    /\ \A r \in Requests : rpc[r] # "idle" => ramt[r] # 0
    /\ \A i \in 1..Len(withdrawals) : withdrawals[i].amount # 0

----------------------------------------------------------------------------
\* C40: for every response of the authority the call of GetOrder ends by
\* returning a status or an error value to the worker, and the process runs
\* on: the call never ends the worker's goroutine abnormally.
C40_GetOrderAlwaysReturns ==
    [][\A w \in Workers :
          (apc[w] # "idle" /\ apc'[w] = "idle" /\ restarts' = restarts) =>
             /\ ~crashed'
             /\ aresp'[w].err # PanicIndexOutOfRange
             /\ aresp'[w].err = Nil => aresp'[w].status \in GetOrderStatuses]_vars

====
